---------------------------- MODULE Spec2Model ----------------------------
(***************************************************************************)
(* A model of the JSON-to-CSV extractor of src/main.go (the third, most    *)
(* recent draft of the file: lines 1097-1698).                             *)
(*                                                                         *)
(* Strings are sequences of tokens.  A token is a one-character string, or *)
(* one of the HTML tag tokens "<p>", "</p>", "<strong>", "</strong>",      *)
(* "<span>", "</span>", "<br>": the tokenizer of the HTML library is not   *)
(* modelled, its output is.                                                *)
(***************************************************************************)
EXTENDS Integers, Sequences, FiniteSets, TLC

(***************************************************************************)
(* The state.  The inputs of a run (the directory listing, the worker      *)
(* count, the selected profile and the configuration) are set once, by     *)
(* init and the first lines of main, and never change.                     *)
(***************************************************************************)
VARIABLES
    jsonFiles,      \* main: the paths matched in the input folder, in Glob's order
    workerCount,    \* the -w flag
    profile,        \* config.Profiles[profileName]
    config,         \* the global policy of config.yaml
    mainPc,         \* where main is
    started,        \* main: the number of workers started so far
    sent,           \* main: the number of paths sent on jobs so far
    jobs,           \* the jobs channel
    jobsClosed,
    results,        \* the results channel
    resultsClosed,
    errorChan,      \* the error side-channel
    errorClosed,
    progressChan,   \* the progress channel
    progressClosed,
    workerPc,       \* where each worker is
    workerRows,     \* each worker: the rows of its file it has yet to send
    workerErr,      \* each worker: the error it has yet to send
    wg,             \* the WaitGroup counter
    closerPc,       \* where the goroutine that closes results and errorChan is
    monitorPc,      \* where monitorErrors is
    progressPc,     \* where showProgress is
    processed,      \* showProgress: its counter
    output,         \* the records written to the CSV writer, in order
    flushed,        \* the deferred writer.Flush() has run
    logged,         \* the errors monitorErrors has logged, in order
    outcome,        \* per path: what processJSONFile returned for it (history)
    errSent,        \* the errors sent on errorChan, in order (history)
    item,           \* the record handed to processJSONItem on its own
    itemOrders,     \* the order of each range over the harvested map for it
    itemResult,     \* what processJSONItem returned for it
    fnCall,         \* a helper function called on its own, with its arguments
    fnRet           \* what that call returned

vars == <<jsonFiles, workerCount, profile, config, mainPc, started, sent, jobs, jobsClosed,
          results, resultsClosed, errorChan, errorClosed, progressChan, progressClosed,
          workerPc, workerRows, workerErr, wg, closerPc, monitorPc, progressPc, processed,
          output, flushed, logged, outcome, errSent, item, itemOrders, itemResult,
          fnCall, fnRet>>

(***************************************************************************)
(* Bounds of the model.                                                    *)
(***************************************************************************)
MaxFiles == 2
MaxWorkers == 2

(***************************************************************************)
(* strings                                                                 *)
(***************************************************************************)
Range(s) == {s[i] : i \in 1..Len(s)}

\* a sequence given by a function constructor, as an explicit tuple (TLC would
\* otherwise evaluate its elements anew at every use)
AsSeq(f) == f \o <<>>

IsSpace(c) == c \in {" ", "\t", "\n", "\r"}

RECURSIVE TrimLeft(_)
TrimLeft(s) == IF s # <<>> /\ IsSpace(Head(s)) THEN TrimLeft(Tail(s)) ELSE s

RECURSIVE TrimRight(_)
TrimRight(s) ==
    IF s # <<>> /\ IsSpace(s[Len(s)]) THEN TrimRight(SubSeq(s, 1, Len(s) - 1)) ELSE s

\* strings.TrimSpace
TrimSpace(s) == TrimRight(TrimLeft(s))

HasPrefix(s, p) == Len(p) <= Len(s) /\ SubSeq(s, 1, Len(p)) = p

HasSuffix(s, p) == Len(p) <= Len(s) /\ SubSeq(s, Len(s) - Len(p) + 1, Len(s)) = p

\* strings.TrimSuffix
TrimSuffix(s, p) == IF HasSuffix(s, p) THEN SubSeq(s, 1, Len(s) - Len(p)) ELSE s

\* strings.Index, 1-based; 0 when sub does not occur in s
Index(s, sub) ==
    LET hits == {i \in 1..(Len(s) - Len(sub) + 1) : SubSeq(s, i, i + Len(sub) - 1) = sub}
    IN  IF hits = {} THEN 0 ELSE CHOOSE i \in hits : \A j \in hits : i <= j

\* strings.Contains
Contains(s, sub) == Index(s, sub) # 0

\* strings.Split with a non-empty separator
RECURSIVE Split(_, _)
Split(s, sep) ==
    LET i == Index(s, sep)
    IN  IF i = 0 THEN <<s>>
        ELSE <<SubSeq(s, 1, i - 1)>> \o Split(SubSeq(s, i + Len(sep), Len(s)), sep)

\* strings.ReplaceAll with a non-empty old
RECURSIVE ReplaceAll(_, _, _)
ReplaceAll(s, old, new) ==
    LET i == Index(s, old)
    IN  IF i = 0 THEN s
        ELSE SubSeq(s, 1, i - 1) \o new \o ReplaceAll(SubSeq(s, i + Len(old), Len(s)), old, new)

\* strings.Join
RECURSIVE Join(_, _)
Join(ss, sep) ==
    IF ss = <<>> THEN <<>>
    ELSE IF Len(ss) = 1 THEN ss[1]
    ELSE ss[1] \o sep \o Join(Tail(ss), sep)

Upper == <<"A", "B", "C", "D", "E", "F", "G", "H", "I", "J", "K", "L", "M",
           "N", "O", "P", "Q", "R", "S", "T", "U", "V", "W", "X", "Y", "Z">>
Lower == <<"a", "b", "c", "d", "e", "f", "g", "h", "i", "j", "k", "l", "m",
           "n", "o", "p", "q", "r", "s", "t", "u", "v", "w", "x", "y", "z">>

LowerChar(c) ==
    IF \E i \in 1..Len(Upper) : Upper[i] = c
    THEN Lower[CHOOSE i \in 1..Len(Upper) : Upper[i] = c]
    ELSE c

\* strings.ToLower
ToLower(s) == AsSeq([i \in 1..Len(s) |-> LowerChar(s[i])])

Digits == <<"0", "1", "2", "3", "4", "5", "6", "7", "8", "9">>

IsDigit(c) == \E i \in 1..Len(Digits) : Digits[i] = c

DigitVal(c) == (CHOOSE i \in 1..Len(Digits) : Digits[i] = c) - 1

\* the decimal form of a natural number
RECURSIVE Itoa(_)
Itoa(n) == IF n < 10 THEN <<Digits[n + 1]>> ELSE Itoa(n \div 10) \o <<Digits[(n % 10) + 1]>>

\* the value of a non-empty string of digits
RECURSIVE Atoi(_)
Atoi(s) ==
    IF Len(s) = 1 THEN DigitVal(s[1])
    ELSE 10 * Atoi(SubSeq(s, 1, Len(s) - 1)) + DigitVal(s[Len(s)])


(***************************************************************************)
(* JSON values, as encoding/json decodes them into interface{}: a mapping, *)
(* an array or a scalar (string, float64, bool, nil).  Numbers are the     *)
(* natural numbers below 1000000, which %v prints in decimal.              *)
(***************************************************************************)
JStr(s) == [t |-> "str", s |-> s]
JNum(n) == [t |-> "num", n |-> n]
JBool(b) == [t |-> "bool", b |-> b]
JNull == [t |-> "null"]
JMap(m) == [t |-> "map", m |-> m]
JArr(a) == [t |-> "arr", a |-> a]

\* the characters of the model in code-point order
Alphabet == <<"\t", "\n", "\r", " ", "+", "-", ".">> \o Digits \o <<":", "<", ">">>
            \o Upper \o <<"[", "]", "_">> \o Lower

CharRank(c) ==
    IF \E i \in 1..Len(Alphabet) : Alphabet[i] = c
    THEN CHOOSE i \in 1..Len(Alphabet) : Alphabet[i] = c
    ELSE Len(Alphabet) + 1

RECURSIVE StrLess(_, _)
StrLess(a, b) ==
    IF b = <<>> THEN FALSE
    ELSE IF a = <<>> THEN TRUE
    ELSE IF Head(a) = Head(b) THEN StrLess(Tail(a), Tail(b))
    ELSE CharRank(Head(a)) < CharRank(Head(b))

\* the keys of a mapping in the order fmt prints them (sorted)
RECURSIVE SortedKeys(_)
SortedKeys(S) ==
    IF S = {} THEN <<>>
    ELSE LET k == CHOOSE x \in S : \A y \in S \ {x} : StrLess(x, y)
         IN  <<k>> \o SortedKeys(S \ {k})

NilString == <<"<", "n", "i", "l", ">">>

\* fmt.Sprintf("%v", data)
RECURSIVE Sprint(_)
Sprint(v) ==
    CASE v.t = "str" -> v.s
      [] v.t = "num" -> Itoa(v.n)
      [] v.t = "bool" -> IF v.b THEN <<"t", "r", "u", "e">> ELSE <<"f", "a", "l", "s", "e">>
      [] v.t = "null" -> NilString
      [] v.t = "arr" ->
            <<"[">> \o Join(AsSeq([i \in 1..Len(v.a) |-> Sprint(v.a[i])]), <<" ">>) \o <<"]">>
      [] v.t = "map" ->
            LET ks == SortedKeys(DOMAIN v.m)
            IN  <<"m", "a", "p", "[">>
                \o Join(AsSeq([i \in 1..Len(ks) |-> ks[i] \o <<":">> \o Sprint(v.m[ks[i]])]),
                        <<" ">>)
                \o <<"]">>

RECURSIVE SkipBlanks(_)
SkipBlanks(s) ==
    IF s # <<>> /\ Head(s) \in {" ", "\t", "\r"} THEN SkipBlanks(Tail(s)) ELSE s

RECURSIVE LeadingDigits(_)
LeadingDigits(s) ==
    IF s # <<>> /\ IsDigit(Head(s)) THEN <<Head(s)>> \o LeadingDigits(Tail(s)) ELSE <<>>

\* fmt.Sscanf(key, "[%d]", &index): the literal "[", blanks, an optional sign,
\* digits, the literal "]"; what follows the "]" is not read
ScanIndex(key) ==
    IF key = <<>> \/ Head(key) # "[" THEN [ok |-> FALSE, n |-> 0]
    ELSE LET a == SkipBlanks(Tail(key))
             neg == a # <<>> /\ Head(a) = "-"
             b == IF a # <<>> /\ Head(a) \in {"+", "-"} THEN Tail(a) ELSE a
             d == LeadingDigits(b)
             c == SubSeq(b, Len(d) + 1, Len(b))
         IN  IF d = <<>> \/ c = <<>> \/ Head(c) # "]" THEN [ok |-> FALSE, n |-> 0]
             ELSE [ok |-> TRUE, n |-> IF neg THEN 0 - Atoi(d) ELSE Atoi(d)]

Resolved(s) == [s |-> s, err |-> "none"]
Failed(e) == [s |-> <<>>, err |-> e]

RECURSIVE getNestedValue_KeyMissOK(_, _)
getNestedValue_KeyMissOK(data, keys) ==
    IF keys = <<>> THEN Resolved(Sprint(data))
    ELSE CASE data.t = "map" ->
                IF Head(keys) \in DOMAIN data.m
                THEN getNestedValue_KeyMissOK(data.m[Head(keys)], Tail(keys))
                ELSE Resolved(<<>>)
           [] data.t = "arr" ->
                LET r == ScanIndex(Head(keys))
                IN  IF ~r.ok THEN Failed("IndexParse")
                    ELSE IF r.n >= 0 /\ r.n < Len(data.a)
                    THEN getNestedValue_KeyMissOK(data.a[r.n + 1], Tail(keys))
                    ELSE Failed("IndexRange")
           [] OTHER -> Resolved(Sprint(data))

\* getNestedValue: the walk of the path, segment by segment
RECURSIVE getNestedValue(_, _)
getNestedValue(data, keys) ==
    IF keys = <<>> THEN Resolved(Sprint(data))
    ELSE CASE data.t = "map" ->
                IF Head(keys) \in DOMAIN data.m
                THEN getNestedValue(data.m[Head(keys)], Tail(keys))
                ELSE Failed("KeyNotFound")
           [] data.t = "arr" ->
                LET r == ScanIndex(Head(keys))
                IN  IF ~r.ok THEN Failed("IndexParse")
                    ELSE IF r.n >= 0 /\ r.n < Len(data.a)
                    THEN getNestedValue(data.a[r.n + 1], Tail(keys))
                    ELSE Failed("IndexRange")
           [] OTHER -> Resolved(Sprint(data))

(***************************************************************************)
(* HTML.  A fragment is a sequence of tokens; the documents of the model   *)
(* are flat: text and <p> elements at the top, and inside a <p> text,      *)
(* <strong>text</strong>, <span>text</span> and <br>.                      *)
(***************************************************************************)
TagTokens == {"<p>", "</p>", "<strong>", "</strong>", "<span>", "</span>", "<br>"}

RECURSIVE TextRun(_)
TextRun(s) == IF s # <<>> /\ Head(s) \notin TagTokens THEN <<Head(s)>> \o TextRun(Tail(s)) ELSE <<>>

\* the text of a node: its characters without the tags
RECURSIVE NodeText(_)
NodeText(s) ==
    IF s = <<>> THEN <<>>
    ELSE IF Head(s) \in TagTokens THEN NodeText(Tail(s))
    ELSE <<Head(s)>> \o NodeText(Tail(s))

\* the part of s inside an element opened just before s, and what follows it
Element(s, close) ==
    LET i == Index(s, <<close>>)
    IN  IF i = 0 THEN [inner |-> s, rest |-> <<>>]
        ELSE [inner |-> SubSeq(s, 1, i - 1), rest |-> SubSeq(s, i + 1, Len(s))]

\* s.Contents(): the child nodes of a <p>, in document order
RECURSIVE Children(_)
Children(s) ==
    IF s = <<>> THEN <<>>
    ELSE CASE Head(s) = "<strong>" ->
                LET e == Element(Tail(s), "</strong>")
                IN  <<[name |-> "strong", text |-> NodeText(e.inner)]>> \o Children(e.rest)
           [] Head(s) = "<span>" ->
                LET e == Element(Tail(s), "</span>")
                IN  <<[name |-> "span", text |-> NodeText(e.inner)]>> \o Children(e.rest)
           [] Head(s) = "<br>" -> <<[name |-> "br", text |-> <<>>]>> \o Children(Tail(s))
           [] Head(s) \in TagTokens -> Children(Tail(s))
           [] OTHER ->
                LET r == TextRun(s)
                IN  <<[name |-> "#text", text |-> r]>> \o Children(SubSeq(s, Len(r) + 1, Len(s)))

\* doc.Find("p"): the paragraphs of the document, each as its token sequence
RECURSIVE Paragraphs(_)
Paragraphs(content) ==
    LET i == Index(content, <<"<p>">>)
    IN  IF i = 0 THEN <<>>
        ELSE LET e == Element(SubSeq(content, i + 1, Len(content)), "</p>")
             IN  <<e.inner>> \o Paragraphs(e.rest)

\* m[k] = v on a Go map
MapPut(m, k, v) == (k :> v) @@ m

EmptyMap == [x \in {} |-> <<>>]

\* m[k] on a Go map of strings: the empty string when k is absent
MapGet(m, k) == IF k \in DOMAIN m THEN m[k] ELSE <<>>

Colon == <<":">>

\* the callback of s.Contents().Each over the children of one <p>, and the
\* store after the last child
RECURSIVE HarvestP(_, _, _, _)
HarvestP(nodes, currentKey, currentValue, kv) ==
    IF nodes = <<>>
    THEN IF currentKey # <<>> THEN MapPut(kv, currentKey, TrimSpace(currentValue)) ELSE kv
    ELSE LET node == Head(nodes)
         IN  IF node.name = "strong"
             THEN HarvestP(Tail(nodes), TrimSuffix(TrimSpace(node.text), Colon),
                           IF currentKey # <<>> THEN <<>> ELSE currentValue,
                           IF currentKey # <<>>
                           THEN MapPut(kv, currentKey, TrimSpace(currentValue))
                           ELSE kv)
             ELSE HarvestP(Tail(nodes), currentKey, currentValue \o node.text, kv)

\* doc.Find("p").Each: the label/value pairs of the document
RECURSIVE Harvest(_, _)
Harvest(ps, kv) ==
    IF ps = <<>> THEN kv
    ELSE Harvest(Tail(ps), HarvestP(Children(Head(ps)), <<>>, <<>>, kv))

keyValuePairs(content) == Harvest(Paragraphs(content), EmptyMap)

\* the element a tag name selects
ElementNamed(tagName) ==
    CASE tagName = <<"p">> -> "p"
      [] tagName = <<"s", "t", "r", "o", "n", "g">> -> "strong"
      [] tagName = <<"s", "p", "a", "n">> -> "span"
      [] tagName = <<"b", "r">> -> "br"
      [] OTHER -> "none"

\* doc.Find(tagName): the text of each element of that name, in document order
RECURSIVE TagTexts(_, _)
TagTexts(ps, name) ==
    IF ps = <<>> THEN <<>>
    ELSE LET kids == Children(Head(ps))
             own == IF name = "p" THEN <<NodeText(Head(ps))>> ELSE <<>>
             RECURSIVE Pick(_)
             Pick(i) == IF i > Len(kids) THEN <<>>
                        ELSE (IF kids[i].name = name THEN <<kids[i].text>> ELSE <<>>)
                             \o Pick(i + 1)
         IN  own \o Pick(1) \o TagTexts(Tail(ps), name)

RECURSIVE ConcatWithSpace(_)
ConcatWithSpace(ts) == IF ts = <<>> THEN <<>> ELSE Head(ts) \o <<" ">> \o ConcatWithSpace(Tail(ts))

extractTagContent(content, tagName) ==
    TrimSpace(ConcatWithSpace(TagTexts(Paragraphs(content), ElementNamed(tagName))))

(***************************************************************************)
(* Regular expressions.  The patterns of the model are built from literal  *)
(* characters, ".", a postfix "*", "|", "^" and "$".                       *)
(***************************************************************************)
\* the atoms of one alternative: [c, star], or <<>> for a misplaced "*"
RECURSIVE Atoms(_)
Atoms(p) ==
    IF p = <<>> THEN <<>>
    ELSE IF Head(p) = "*" THEN <<[c |-> "*", star |-> TRUE, bad |-> TRUE]>>
    ELSE IF Head(p) \in {"^", "$"}
    THEN <<[c |-> Head(p), star |-> FALSE, bad |-> FALSE]>> \o Atoms(Tail(p))
    ELSE IF Len(p) >= 2 /\ p[2] = "*"
    THEN <<[c |-> Head(p), star |-> TRUE, bad |-> FALSE]>> \o Atoms(SubSeq(p, 3, Len(p)))
    ELSE <<[c |-> Head(p), star |-> FALSE, bad |-> FALSE]>> \o Atoms(Tail(p))

CharMatches(c, x) == IF c = "." THEN x # "\n" ELSE c = x

\* the positions at which a match of atoms that begins at position i of s can end
RECURSIVE Ends(_, _, _)
Ends(atoms, s, i) ==
    IF atoms = <<>> THEN {i}
    ELSE LET a == Head(atoms)
         IN  CASE a.c = "^" /\ ~a.star -> IF i = 1 THEN Ends(Tail(atoms), s, i) ELSE {}
               [] a.c = "$" /\ ~a.star -> IF i = Len(s) + 1 THEN Ends(Tail(atoms), s, i) ELSE {}
               [] a.star ->
                    Ends(Tail(atoms), s, i)
                    \cup (IF i <= Len(s) /\ CharMatches(a.c, s[i])
                          THEN Ends(atoms, s, i + 1) ELSE {})
               [] OTHER ->
                    IF i <= Len(s) /\ CharMatches(a.c, s[i])
                    THEN Ends(Tail(atoms), s, i + 1) ELSE {}

\* regexp.MatchString(pattern, s): s contains a match of the pattern; a pattern
\* that does not compile matches nothing (the error is dropped by the caller)
MatchString(pattern, s) ==
    LET alts == Split(pattern, <<"|">>)
        valid == \A k \in 1..Len(alts) : \A j \in 1..Len(Atoms(alts[k])) : ~Atoms(alts[k])[j].bad
    IN  valid /\ \E k \in 1..Len(alts) : \E i \in 1..(Len(s) + 1) : Ends(Atoms(alts[k]), s, i) # {}

containsExact(slice, label) == \E i \in 1..Len(slice) : slice[i] = label

\* a matcher that leaves the keywords aside when the column has a regex
matchColumn_RegexOnly(key, column) ==
    IF column.ExactMatch
    THEN key = column.Regex \/ containsExact(column.Keywords, key)
    ELSE IF column.Regex # <<>>
    THEN MatchString(<<"^">> \o column.Regex \o <<"$">>, key)
    ELSE \E i \in 1..Len(column.Keywords) :
             Contains(ToLower(key), ToLower(column.Keywords[i]))

\* matchColumn: does the harvested label key satisfy the column
matchColumn(key, column) ==
    IF column.ExactMatch
    THEN key = column.Regex \/ containsExact(column.Keywords, key)
    ELSE \/ column.Regex # <<>> /\ MatchString(<<"^">> \o column.Regex \o <<"$">>, key)
         \/ \E i \in 1..Len(column.Keywords) :
                Contains(ToLower(key), ToLower(column.Keywords[i]))

(***************************************************************************)
(* The row builder.                                                        *)
(***************************************************************************)
HTML == <<"h", "t", "m", "l">>
CRLF == <<"\r", "\n">>

\* the orders in which a range over a map with these keys can visit them
Perms(S) ==
    {p \in [1..Cardinality(S) -> S] : \A i, j \in 1..Cardinality(S) : p[i] = p[j] => i = j}

\* for key, value := range keyValuePairs { if matchColumn(key, column) {...; break} }
RECURSIVE FirstMatch(_, _)
FirstMatch(order, column) ==
    IF order = <<>> THEN <<>>
    ELSE IF matchColumn(Head(order), column) THEN <<Head(order)>>
    ELSE FirstMatch(Tail(order), column)

\* results[column.Column] = value, for the first label of the range that matches
putHit(res, column, kv, hit) ==
    IF hit # <<>> THEN MapPut(res, column.Column, kv[hit[1]]) ELSE res

\* one turn of the loop over the columns of extractHTMLValues
putColumn(res, content, column, order) ==
    IF column.Tag # <<>>
    THEN MapPut(res, column.Column, extractTagContent(content, column.Tag))
    ELSE putHit(res, column, keyValuePairs(content), FirstMatch(order, column))

\* the loop over the columns of extractHTMLValues, from column i on
RECURSIVE HTMLResults(_, _, _, _, _)
HTMLResults(content, columns, orders, i, res) ==
    IF i > Len(columns) THEN res
    ELSE HTMLResults(content, columns, orders, i + 1,
                     putColumn(res, content, columns[i], orders[i]))

\* extractHTMLValues; orders[i] is the order in which the range for column i
\* visits the harvested labels.  Parsing a string never fails.
extractHTMLValues(content, columns, orders) == HTMLResults(content, columns, orders, 1, EmptyMap)

\* regexp `\s+` -> " "
RECURSIVE CollapseSpace(_)
CollapseSpace(s) ==
    IF s = <<>> THEN <<>>
    ELSE IF IsSpace(Head(s)) THEN <<" ">> \o CollapseSpace(TrimLeft(s))
    ELSE <<Head(s)>> \o CollapseSpace(Tail(s))

\* regexp `:\S` -> the colon, a space, the character
RECURSIVE SpaceAfterColon(_)
SpaceAfterColon(s) ==
    IF s = <<>> THEN <<>>
    ELSE IF Head(s) = ":" /\ Len(s) >= 2 /\ ~IsSpace(s[2])
    THEN <<":", " ", s[2]>> \o SpaceAfterColon(SubSeq(s, 3, Len(s)))
    ELSE <<Head(s)>> \o SpaceAfterColon(Tail(s))

\* the walk of the parsed tree: the text nodes, and "<br>" for each br element
RECURSIVE TextAndBreaks(_)
TextAndBreaks(s) ==
    IF s = <<>> THEN <<>>
    ELSE IF Head(s) = "<br>" THEN <<"<", "b", "r", ">">> \o TextAndBreaks(Tail(s))
    ELSE IF Head(s) \in TagTokens THEN TextAndBreaks(Tail(s))
    ELSE <<Head(s)>> \o TextAndBreaks(Tail(s))

\* cleanHTMLContent, for a profile that is neither "teams" nor "replies"
cleanHTMLContent(content) ==
    TrimSpace(ReplaceAll(SpaceAfterColon(CollapseSpace(TextAndBreaks(content))),
                         <<"?", "?">>, <<":", " ">>))

\* the first position of line at which key is followed by a character other than "\n"
KeyMatch(line, key) ==
    LET hits == {i \in 1..Len(line) :
                    /\ i + Len(key) <= Len(line)
                    /\ SubSeq(line, i, i + Len(key) - 1) = key
                    /\ line[i + Len(key)] # "\n"}
    IN  IF hits = {} THEN 0 ELSE CHOOSE i \in hits : \A j \in hits : i <= j

UpToNewline(s) == LET i == Index(s, <<"\n">>) IN IF i = 0 THEN s ELSE SubSeq(s, 1, i - 1)

\* value[:strings.Index(value, "<br")]
CutAtBreak(value) ==
    LET hits == {i \in 1..Len(value) :
                    \/ value[i] = "<br>"
                    \/ i + 2 <= Len(value) /\ SubSeq(value, i, i + 2) = <<"<", "b", "r">>}
    IN  IF hits = {} THEN value
        ELSE SubSeq(value, 1, (CHOOSE i \in hits : \A j \in hits : i <= j) - 1)

\* the loop over the lines of extractValue, from line i on
RECURSIVE ExtractFrom(_, _, _, _)
ExtractFrom(lines, i, key, extractToEnd) ==
    IF i > Len(lines) THEN <<>>
    ELSE LET line == lines[i]
             m == KeyMatch(line, key)
         IN  IF m = 0 THEN ExtractFrom(lines, i + 1, key, extractToEnd)
             ELSE IF extractToEnd
             THEN LET keywordIndex == Index(line, key)
                      restOfLine == SubSeq(line, keywordIndex + Len(key), Len(line))
                  IN  TrimSpace(Join(<<restOfLine>> \o SubSeq(lines, i + 1, Len(lines)), CRLF))
             ELSE TrimSpace(CutAtBreak(TrimSpace(
                      UpToNewline(SubSeq(line, m + Len(key), Len(line))))))

\* extractValue; the quoted pattern always compiles, so it returns no error
extractValue(content, key, extractToEnd) == ExtractFrom(Split(content, CRLF), 1, key, extractToEnd)

\* The functions below read the global config; here it is their first parameter.
handleNewlines(cfg, input) ==
    CASE cfg.NewlineHandling = "keep" -> input
      [] cfg.NewlineHandling = "remove" -> ReplaceAll(input, CRLF, <<>>)
      [] cfg.NewlineHandling = "replace" -> ReplaceAll(input, CRLF, cfg.NewlineReplacement)
      [] OTHER -> input

\* a null policy that replaces the empty string only
handleNullValue_EmptyOnly(cfg, value) ==
    IF value = <<>>
    THEN CASE cfg.NullValueHandling = "null" -> <<"n", "u", "l", "l">>
           [] cfg.NullValueHandling = "nil" -> <<"n", "i", "l">>
           [] cfg.NullValueHandling = "empty" -> <<>>
           [] OTHER -> <<>>
    ELSE value

handleNullValue(cfg, value) ==
    IF value = <<>> \/ value = NilString
    THEN CASE cfg.NullValueHandling = "null" -> <<"n", "u", "l", "l">>
           [] cfg.NullValueHandling = "nil" -> <<"n", "i", "l">>
           [] cfg.NullValueHandling = "empty" -> <<>>
           [] OTHER -> <<>>
    ELSE value

\* row[i] = handleNewlines(value); row[i] = handleNullValue(row[i])
applyPolicies(cfg, value) == handleNullValue(cfg, handleNewlines(cfg, value))

isEmptyOrAllNull_FirstOnly(cfg, row) ==
    row = <<>> \/ ~(row[1] # <<>> /\ row[1] # handleNullValue(cfg, <<>>))

isEmptyOrAllNull(cfg, row) ==
    \A i \in 1..Len(row) : ~(row[i] # <<>> /\ row[i] # handleNullValue(cfg, <<>>))

Dot == <<".">>

\* if column.CleanHTML { value = cleanHTMLContent(value) }
cleanIfFlagged(column, value) == IF column.CleanHTML THEN cleanHTMLContent(value) ELSE value

\* the branch of the if / else-if chain that a column takes
usesHTML(prof, column) ==
    prof.ContentType = HTML /\ (column.Regex # <<>> \/ Len(column.Keywords) > 0)

usesLine(prof, column) == column.Regex # <<>> /\ prof.ParseBody # <<>>

\* the value the chain gives the column, before clean_html and the policies
sourceValue(rec, prof, parseContent, htmlValues, column) ==
    IF usesHTML(prof, column) THEN MapGet(htmlValues, column.Column)
    ELSE IF usesLine(prof, column)
    THEN extractValue(parseContent, column.Regex, column.ExtractToEnd)
    ELSE IF column.Key # <<>> THEN getNestedValue(rec, Split(column.Key, Dot)).s
    ELSE <<>>

\* the key branch returning the error of getNestedValue instead of logging it
columnValue_AbortOnMiss(cfg, rec, prof, parseContent, htmlValues, column) ==
    [abort |-> /\ ~usesHTML(prof, column)
               /\ ~usesLine(prof, column)
               /\ column.Key # <<>>
               /\ getNestedValue(rec, Split(column.Key, Dot)).err # "none",
     value |-> handleNullValue(cfg, handleNewlines(cfg,
                   cleanIfFlagged(column,
                       sourceValue(rec, prof, parseContent, htmlValues, column))))]

\* the value of one column: the if / else-if chain of processJSONItem's loop,
\* then clean_html, the newline policy and the null policy; abort: the loop
\* returns an error (only extractValue can make it, and it never does)
columnValue(cfg, rec, prof, parseContent, htmlValues, column) ==
    [abort |-> FALSE,
     value |-> applyPolicies(cfg,
                   cleanIfFlagged(column,
                       sourceValue(rec, prof, parseContent, htmlValues, column)))]

\* the result of resolving parse_body: the body, or the error
parseBody(rec, prof) ==
    IF prof.ParseBody # <<>> THEN getNestedValue(rec, Split(prof.ParseBody, Dot))
    ELSE Resolved(<<>>)

\* the labels that the harvest of a body gives
LabelsOf(prof, body) ==
    IF prof.ParseBody # <<>> /\ body.err = "none" /\ prof.ContentType = HTML
    THEN DOMAIN keyValuePairs(body.s)
    ELSE {}

\* the labels a range over the harvested map of this record visits
Labels(rec, prof) == LabelsOf(prof, parseBody(rec, prof))

\* the orders the ranges of one call of processJSONItem can take, one per column
Orders(rec, prof) == [1..Len(prof.Columns) -> Perms(Labels(rec, prof))]

\* htmlValues, err = extractHTMLValues(parseContent, profile.Columns)
htmlValuesOf(prof, parseContent, orders) ==
    IF prof.ParseBody # <<>> /\ prof.ContentType = HTML
    THEN extractHTMLValues(parseContent, prof.Columns, orders)
    ELSE EmptyMap

\* the loop over the columns, given the body and the values of its labels
columnsFrom(cfg, rec, prof, parseContent, htmlValues) ==
    AsSeq([i \in 1..Len(prof.Columns) |->
              columnValue(cfg, rec, prof, parseContent, htmlValues, prof.Columns[i])])

\* the loop over the columns of processJSONItem, for a record whose body resolved
columnValues(cfg, rec, prof, orders) ==
    columnsFrom(cfg, rec, prof, parseBody(rec, prof).s,
                htmlValuesOf(prof, parseBody(rec, prof).s, orders))

\* the row of the values of the columns
rowOf(cols) == AsSeq([i \in 1..Len(cols) |-> cols[i].value])

\* a row that keeps only its fields that are not blank
dropBlank_Compact(cfg, row) ==
    IF isEmptyOrAllNull(cfg, row) THEN [err |-> FALSE, row |-> <<>>]
    ELSE [err |-> FALSE,
          row |-> SelectSeq(row, LAMBDA v : v # <<>> /\ v # handleNullValue(cfg, <<>>))]

\* if isEmptyOrAllNull(row) { return nil, nil }; return row, nil
dropBlank(cfg, row) ==
    IF isEmptyOrAllNull(cfg, row) THEN [err |-> FALSE, row |-> <<>>]
    ELSE [err |-> FALSE, row |-> row]

\* the end of processJSONItem, after the loop over the columns
rowOrError(cfg, cols) ==
    IF \E i \in 1..Len(cols) : cols[i].abort THEN [err |-> TRUE, row |-> <<>>]
    ELSE dropBlank(cfg, rowOf(cols))

\* processJSONItem: [err, row], row = <<>> standing for nil
processJSONItem(cfg, rec, prof, orders) ==
    IF parseBody(rec, prof).err # "none" THEN [err |-> TRUE, row |-> <<>>]
    ELSE rowOrError(cfg, columnValues(cfg, rec, prof, orders))

\* the header taken from the key of each column instead of its name
getHeaders_Keys(prof) == AsSeq([i \in 1..Len(prof.Columns) |-> prof.Columns[i].Key])

\* getHeaders: the column names, in profile order
getHeaders(prof) == AsSeq([i \in 1..Len(prof.Columns) |-> prof.Columns[i].Column])

(***************************************************************************)
(* The inputs of the model: records, profiles, policies and files.         *)
(***************************************************************************)
Item1 ==
    JMap(
        <<"i", "d">> :> JStr(<<"X", "1">>) @@
        <<"a", "u", "t", "h", "o", "r">> :> JMap(
            <<"n", "a", "m", "e">> :> JStr(<<"A">>)) @@
        <<"i", "t", "e", "m", "s">> :> JArr(<<JMap(
                <<"s", "k", "u">> :> JStr(<<"A">>)), JMap(
                <<"s", "k", "u">> :> JStr(<<"B">>))>>) @@
        <<"b", "o", "d", "y">> :> JStr(<<"<p>", "<strong>", "N", "a", "m", "e", ":", "</strong>", " ", "A", "l", "i", "c", "e", "</p>", "<p>", "<strong>", "R", "o", "l", "e", ":", "</strong>", " ", "E", "n", "g", "</p>">>))

Item2 ==
    JMap(
        <<"i", "d">> :> JStr(<<"X", "2">>) @@
        <<"a", "u", "t", "h", "o", "r">> :> JStr(<<"s", "o", "l", "o">>) @@
        <<"i", "t", "e", "m", "s">> :> JArr(<<>>) @@
        <<"b", "o", "d", "y">> :> JStr(<<"<p>", "<strong>", "N", "a", "m", "e", "</strong>", "A", "l", "<strong>", "N", "i", "c", "k", "n", "a", "m", "e", "</strong>", "B", "o", "</p>">>))

Item3 ==
    JMap(
        <<"a", "u", "t", "h", "o", "r">> :> JMap(
            <<"n", "a", "m", "e">> :> JStr(<<"B">>)) @@
        <<"b", "o", "d", "y">> :> JStr(<<"<p>", "h", "e", "l", "l", "o", "</p>">>))

Item4 ==
    JMap(
        <<"i", "d">> :> JStr(<<"X", "4">>) @@
        <<"i", "t", "e", "m", "s">> :> JMap(
            <<"s", "k", "u">> :> JStr(<<"Z">>)))

Item5 ==
    JMap(
        <<"i", "d">> :> JNum(7) @@
        <<"a", "u", "t", "h", "o", "r">> :> JMap(
            <<"n", "a", "m", "e">> :> JNull) @@
        <<"b", "o", "d", "y">> :> JStr(<<"S", "u", "b", "j", "e", "c", "t", ":", " ", "h", "i", "<br>", "x", "\r", "\n", "N", "e", "x", "t", ":", " ", "a", "\r", "\n", "b">>))

Item6 ==
    JMap(
        <<"i", "d">> :> JStr(<<"n", "i", "l">>) @@
        <<"a", "u", "t", "h", "o", "r">> :> JArr(<<JStr(<<"A">>)>>) @@
        <<"b", "o", "d", "y">> :> JStr(<<"p", "l", "a", "i", "n">>))

HTMLProfile ==
    [ParseBody |-> <<"b", "o", "d", "y">>, ContentType |-> <<"h", "t", "m", "l">>,
     Columns |-> <<
        [Column |-> <<"I", "D">>, Key |-> <<"i", "d">>, Regex |-> <<>>,
         Keywords |-> <<>>, ExactMatch |-> FALSE,
         ExtractToEnd |-> FALSE, CleanHTML |-> FALSE, Tag |-> <<>>],
        [Column |-> <<"N", "a", "m", "e">>, Key |-> <<>>, Regex |-> <<>>,
         Keywords |-> <<<<"n", "a", "m", "e">>>>, ExactMatch |-> FALSE,
         ExtractToEnd |-> FALSE, CleanHTML |-> FALSE, Tag |-> <<>>],
        [Column |-> <<"R", "o", "l", "e">>, Key |-> <<>>, Regex |-> <<"R", "o", "l", "e">>,
         Keywords |-> <<>>, ExactMatch |-> TRUE,
         ExtractToEnd |-> FALSE, CleanHTML |-> FALSE, Tag |-> <<>>]>>]

JSONProfile ==
    [ParseBody |-> <<>>, ContentType |-> <<>>,
     Columns |-> <<
        [Column |-> <<"I", "D">>, Key |-> <<"i", "d">>, Regex |-> <<>>,
         Keywords |-> <<>>, ExactMatch |-> FALSE,
         ExtractToEnd |-> FALSE, CleanHTML |-> FALSE, Tag |-> <<>>],
        [Column |-> <<"A", "u", "t", "h", "o", "r">>, Key |-> <<"a", "u", "t", "h", "o", "r", ".", "n", "a", "m", "e">>, Regex |-> <<>>,
         Keywords |-> <<>>, ExactMatch |-> FALSE,
         ExtractToEnd |-> FALSE, CleanHTML |-> FALSE, Tag |-> <<>>],
        [Column |-> <<"S", "k", "u">>, Key |-> <<"i", "t", "e", "m", "s", ".", "[", "1", "]", ".", "s", "k", "u">>, Regex |-> <<>>,
         Keywords |-> <<>>, ExactMatch |-> FALSE,
         ExtractToEnd |-> FALSE, CleanHTML |-> FALSE, Tag |-> <<>>]>>]

LineProfile ==
    [ParseBody |-> <<"b", "o", "d", "y">>, ContentType |-> <<"t", "e", "x", "t">>,
     Columns |-> <<
        [Column |-> <<"I", "D">>, Key |-> <<"i", "d">>, Regex |-> <<>>,
         Keywords |-> <<>>, ExactMatch |-> FALSE,
         ExtractToEnd |-> FALSE, CleanHTML |-> FALSE, Tag |-> <<>>],
        [Column |-> <<"S", "u", "b", "j", "e", "c", "t">>, Key |-> <<>>, Regex |-> <<"S", "u", "b", "j", "e", "c", "t", ":">>,
         Keywords |-> <<>>, ExactMatch |-> FALSE,
         ExtractToEnd |-> FALSE, CleanHTML |-> FALSE, Tag |-> <<>>],
        [Column |-> <<"R", "e", "s", "t">>, Key |-> <<>>, Regex |-> <<"N", "e", "x", "t", ":">>,
         Keywords |-> <<>>, ExactMatch |-> FALSE,
         ExtractToEnd |-> TRUE, CleanHTML |-> TRUE, Tag |-> <<>>]>>]

\* an html profile with a column that has only a tag, and one with a tag and keywords
TagProfile ==
    [ParseBody |-> <<"b", "o", "d", "y">>, ContentType |-> <<"h", "t", "m", "l">>,
     Columns |-> <<
        [Column |-> <<"I", "D">>, Key |-> <<"i", "d">>, Regex |-> <<>>,
         Keywords |-> <<>>, ExactMatch |-> FALSE,
         ExtractToEnd |-> FALSE, CleanHTML |-> FALSE, Tag |-> <<>>],
        [Column |-> <<"P", "a", "r", "a">>, Key |-> <<>>, Regex |-> <<>>,
         Keywords |-> <<>>, ExactMatch |-> FALSE,
         ExtractToEnd |-> FALSE, CleanHTML |-> FALSE, Tag |-> <<"p">>],
        [Column |-> <<"S", "t", "r", "o", "n", "g">>, Key |-> <<>>, Regex |-> <<>>,
         Keywords |-> <<<<"z", "z", "z">>>>, ExactMatch |-> FALSE,
         ExtractToEnd |-> FALSE, CleanHTML |-> FALSE, Tag |-> <<"s", "t", "r", "o", "n", "g">>]>>]

ItemPool == {Item1, Item2, Item3, Item4, Item5, Item6}

ProfilePool == {HTMLProfile, JSONProfile, LineProfile}

\* the profiles of the calls of processJSONItem on its own
ItemProfilePool == ProfilePool \cup {TagProfile}

Policy(nl, nv) ==
    [NewlineHandling |-> nl, NewlineReplacement |-> <<" ", "|", " ">>, NullValueHandling |-> nv]

\* every policy: the three documented values of each setting and an undocumented one
ConfigPool ==
    {Policy(nl, nv) : nl \in {"keep", "remove", "replace", "other"},
                      nv \in {"null", "nil", "empty", "other"}}

\* the policies of the runs of the whole program
RunConfigPool == {Policy("keep", "nil"), Policy("replace", "empty")}

\* the files of the input folder, by path: what decodeFileContent and
\* json.Unmarshal make of each
FileSystem ==
    <<[kind |-> "ok", value |-> <<Item1, Item3, Item2>>],
      [kind |-> "ok", value |-> <<Item5, Item6>>],
      [kind |-> "unreadable", value |-> <<>>],
      [kind |-> "malformed", value |-> <<>>],
      [kind |-> "ok", value |-> <<Item1, Item4>>],
      [kind |-> "ok", value |-> <<>>]>>

Paths == 1..Len(FileSystem)

\* filepath.Glob: the listings of at most MaxFiles files, sorted
Listings ==
    UNION {{l \in [1..n -> Paths] : \A i, j \in 1..n : i < j => l[i] < l[j]} : n \in 0..MaxFiles}

\* what processJSONItem returns for each record, profile, policy and order of
\* the ranges (tabulated once)
ItemResults ==
    [rec \in ItemPool, prof \in ItemProfilePool, cfg \in ConfigPool |->
        [orders \in Orders(rec, prof) |-> processJSONItem(cfg, rec, prof, orders)] @@ EmptyMap]
    @@ EmptyMap

(***************************************************************************)
(* processJSONFile                                                         *)
(***************************************************************************)
\* the orders of the ranges of every call of processJSONItem for one file
RECURSIVE FileOrders(_, _)
FileOrders(recs, prof) ==
    IF recs = <<>> THEN {<<>>}
    ELSE {<<o>> \o rest : o \in Orders(Head(recs), prof), rest \in FileOrders(Tail(recs), prof)}

\* a row put in front of the rows before it
keepRow_Prepend(rows, i, r) ==
    IF Len(r.row) > 0 THEN <<[rec |-> i, row |-> r.row]>> \o rows ELSE rows

\* if len(row) > 0 { rows = append(rows, row) }
keepRow(rows, i, r) ==
    IF Len(r.row) > 0 THEN Append(rows, [rec |-> i, row |-> r.row]) ELSE rows

RECURSIVE RowsFrom(_, _, _, _, _, _)

\* one turn of the loop over jsonData.Value, r being what processJSONItem returned
\* a loop that ends at the failing record and returns the rows built before it
rowsAfter_KeepEarlier(cfg, value, prof, ords, i, rows, r) ==
    IF r.err THEN [err |-> "none", rows |-> rows]
    ELSE RowsFrom(cfg, value, prof, ords, i + 1, keepRow(rows, i, r))

rowsAfter(cfg, value, prof, ords, i, rows, r) ==
    IF r.err THEN [err |-> "item", rows |-> <<>>]
    ELSE RowsFrom(cfg, value, prof, ords, i + 1, keepRow(rows, i, r))

\* the loop over jsonData.Value, from record i on; what
\* processJSONItem(item, profile) returns is read from ItemResults
RowsFrom(cfg, value, prof, ords, i, rows) ==
    IF i > Len(value) THEN [err |-> "none", rows |-> rows]
    ELSE rowsAfter(cfg, value, prof, ords, i, rows, ItemResults[value[i], prof, cfg][ords[i]])

\* processJSONFile: [err, rows]; each row is kept with the index of its record
processJSONFile(cfg, filePath, prof, ords) ==
    LET file == FileSystem[filePath]
    IN  CASE file.kind = "unreadable" -> [err |-> "decode", rows |-> <<>>]
          [] file.kind = "malformed" -> [err |-> "json", rows |-> <<>>]
          [] OTHER -> RowsFrom(cfg, file.value, prof, ords, 1, <<>>)

\* what processJSONFile can return for each file of the folder under each
\* profile and policy of a run, over the orders of the ranges (tabulated once)
FileResults ==
    [filePath \in Paths, prof \in ProfilePool, cfg \in RunConfigPool |->
        {processJSONFile(cfg, filePath, prof, ords) :
            ords \in FileOrders(FileSystem[filePath].value, prof)}] @@ EmptyMap

(***************************************************************************)
(* The run: main, the workers, the goroutine that closes the channels,     *)
(* monitorErrors and showProgress.                                         *)
(***************************************************************************)
Workers == 1..MaxWorkers

totalFiles == Len(jsonFiles)

\* make(chan T, totalFiles): a send needs room in the buffer.  With no file
\* the channels are unbuffered, and nothing is ever sent on them.
HasRoom(ch) == Len(ch) < totalFiles

\* the process is alive: when main returns every goroutine ends with it
Running == mainPc # "done"

NoItem == [t |-> "null"]
NoCall == [fn |-> "none"]

Init ==
    /\ jsonFiles \in Listings
    /\ workerCount \in 0..MaxWorkers
    /\ profile \in ProfilePool
    /\ config \in RunConfigPool
    /\ mainPc = "header"
    /\ started = 0
    /\ sent = 0
    /\ jobs = <<>> /\ jobsClosed = FALSE
    /\ results = <<>> /\ resultsClosed = FALSE
    /\ errorChan = <<>> /\ errorClosed = FALSE
    /\ progressChan = <<>> /\ progressClosed = FALSE
    /\ workerPc = [w \in Workers |-> "idle"]
    /\ workerRows = [w \in Workers |-> <<>>]
    /\ workerErr = [w \in Workers |-> 0]
    /\ wg = 0
    /\ closerPc = "idle"
    /\ monitorPc = "idle"
    /\ progressPc = "idle"
    /\ processed = 0
    /\ output = <<>>
    /\ flushed = FALSE
    /\ logged = <<>>
    /\ outcome = [f \in {} |-> 0]
    /\ errSent = <<>>
    /\ item = NoItem
    /\ itemOrders = <<>>
    /\ itemResult = <<>>
    /\ fnCall = NoCall
    /\ fnRet = <<>>

inputs == <<jsonFiles, workerCount, profile, config>>
itemVars == <<item, itemOrders, itemResult, fnCall, fnRet>>
chanVars == <<jobs, jobsClosed, results, resultsClosed, errorChan, errorClosed,
              progressChan, progressClosed>>
workerVars == <<workerPc, workerRows, workerErr, wg, outcome, errSent>>
sinkVars == <<monitorPc, progressPc, processed, logged>>

\* main: writer.Write(headers)
WriteHeader ==
    /\ mainPc = "header"
    /\ output' = Append(output, [kind |-> "header", fields |-> getHeaders(profile)])
    /\ mainPc' = "spawn"
    /\ UNCHANGED <<inputs, itemVars, chanVars, workerVars, sinkVars, started, sent,
                   closerPc, flushed>>

\* main: wg.Add(1); go worker(...)
StartWorker ==
    /\ mainPc = "spawn"
    /\ started < workerCount
    /\ started' = started + 1
    /\ wg' = wg + 1
    /\ workerPc' = [workerPc EXCEPT ![started + 1] = "recv"]
    /\ UNCHANGED <<inputs, itemVars, chanVars, sinkVars, mainPc, sent, workerRows, workerErr,
                   outcome, errSent, closerPc, output, flushed>>

\* main: go showProgress(); go monitorErrors()
StartSinks ==
    /\ mainPc = "spawn"
    /\ started >= workerCount
    /\ progressPc' = "run"
    /\ monitorPc' = "run"
    /\ mainPc' = "send"
    /\ UNCHANGED <<inputs, itemVars, chanVars, workerVars, started, sent, processed, logged,
                   closerPc, output, flushed>>

\* main: jobs <- file
SendJob ==
    /\ mainPc = "send"
    /\ sent < Len(jsonFiles)
    /\ HasRoom(jobs)
    /\ jobs' = Append(jobs, jsonFiles[sent + 1])
    /\ sent' = sent + 1
    /\ UNCHANGED <<inputs, itemVars, jobsClosed, results, resultsClosed, errorChan, errorClosed,
                   progressChan, progressClosed, workerVars, sinkVars, mainPc, started,
                   closerPc, output, flushed>>

\* main: close(jobs)
CloseJobs ==
    /\ mainPc = "send"
    /\ sent >= Len(jsonFiles)
    /\ jobsClosed' = TRUE
    /\ mainPc' = "closer"
    /\ UNCHANGED <<inputs, itemVars, jobs, results, resultsClosed, errorChan, errorClosed,
                   progressChan, progressClosed, workerVars, sinkVars, started, sent,
                   closerPc, output, flushed>>

\* main: go func() { wg.Wait(); close(results); close(errorChan) }()
StartCloser ==
    /\ mainPc = "closer"
    /\ closerPc' = "wait"
    /\ mainPc' = "drain"
    /\ UNCHANGED <<inputs, itemVars, chanVars, workerVars, sinkVars, started, sent,
                   output, flushed>>

\* a receive that takes the newest element of the channel
Received_Last(ch) == [elem |-> ch[Len(ch)], rest |-> SubSeq(ch, 1, Len(ch) - 1)]

\* for row := range results: the element the receive takes, and what stays
Received(ch) == [elem |-> Head(ch), rest |-> Tail(ch)]

\* main: row := <-results; writer.Write(row)
WriteRow ==
    /\ mainPc = "drain"
    /\ results # <<>>
    /\ output' = Append(output, [kind |-> "row", file |-> Received(results).elem.file,
                                 rec |-> Received(results).elem.rec,
                                 fields |-> Received(results).elem.row])
    /\ results' = Received(results).rest
    /\ mainPc' = "tick"
    /\ UNCHANGED <<inputs, itemVars, jobs, jobsClosed, resultsClosed, errorChan, errorClosed,
                   progressChan, progressClosed, workerVars, sinkVars, started, sent,
                   closerPc, flushed>>

\* a tick sent without the default case: main waits for room
Tick_Blocking ==
    /\ mainPc = "tick"
    /\ HasRoom(progressChan)
    /\ progressChan' = Append(progressChan, 1)
    /\ mainPc' = "drain"
    /\ UNCHANGED <<inputs, itemVars, jobs, jobsClosed, results, resultsClosed, errorChan,
                   errorClosed, progressClosed, workerVars, sinkVars, started, sent,
                   closerPc, output, flushed>>

\* main: select { case progressChan <- 1: default: }
Tick ==
    /\ mainPc = "tick"
    /\ progressChan' = IF HasRoom(progressChan) THEN Append(progressChan, 1) ELSE progressChan
    /\ mainPc' = "drain"
    /\ UNCHANGED <<inputs, itemVars, jobs, jobsClosed, results, resultsClosed, errorChan,
                   errorClosed, progressClosed, workerVars, sinkVars, started, sent,
                   closerPc, output, flushed>>

\* main: the range over results ends; close(progressChan)
CloseProgress ==
    /\ mainPc = "drain"
    /\ results = <<>>
    /\ resultsClosed
    /\ progressClosed' = TRUE
    /\ mainPc' = "sleep"
    /\ UNCHANGED <<inputs, itemVars, jobs, jobsClosed, results, resultsClosed, errorChan,
                   errorClosed, progressChan, workerVars, sinkVars, started, sent,
                   closerPc, output, flushed>>

\* main: the sleep ends, main returns, the deferred writer.Flush() runs
Return ==
    /\ mainPc = "sleep"
    /\ flushed' = TRUE
    /\ mainPc' = "done"
    /\ UNCHANGED <<inputs, itemVars, chanVars, workerVars, sinkVars, started, sent,
                   closerPc, output>>

\* worker: filePath := <-jobs; rows, err := processJSONFile(filePath, profile)
WorkerTake(w) ==
    /\ Running
    /\ workerPc[w] = "recv"
    /\ jobs # <<>>
    /\ \E res \in FileResults[Head(jobs), profile, config] :
          LET filePath == Head(jobs)
          IN  /\ outcome' = MapPut(outcome, filePath, res)
              /\ IF res.err # "none"
                 THEN /\ workerErr' = [workerErr EXCEPT ![w] = filePath]
                      /\ workerRows' = workerRows
                      /\ workerPc' = [workerPc EXCEPT ![w] = "sendErr"]
                 ELSE /\ workerErr' = workerErr
                      /\ workerRows' = [workerRows EXCEPT ![w] =
                            [i \in 1..Len(res.rows) |->
                                [file |-> filePath, rec |-> res.rows[i].rec,
                                 row |-> res.rows[i].row]]]
                      /\ workerPc' = [workerPc EXCEPT ![w] =
                            IF res.rows = <<>> THEN "recv" ELSE "sendRows"]
    /\ jobs' = Tail(jobs)
    /\ UNCHANGED <<inputs, itemVars, jobsClosed, results, resultsClosed, errorChan, errorClosed,
                   progressChan, progressClosed, sinkVars, mainPc, started, sent, wg, errSent,
                   closerPc, output, flushed>>

\* worker, after the error is sent: continue
AfterError_Return(w) ==
    /\ workerPc' = [workerPc EXCEPT ![w] = "done"]
    /\ wg' = wg - 1

AfterError(w) ==
    /\ workerPc' = [workerPc EXCEPT ![w] = "recv"]
    /\ wg' = wg

\* worker: errorChan <- fmt.Errorf(...); continue
WorkerSendErr(w) ==
    /\ Running
    /\ workerPc[w] = "sendErr"
    /\ HasRoom(errorChan)
    /\ errorChan' = Append(errorChan, workerErr[w])
    /\ errSent' = Append(errSent, workerErr[w])
    /\ workerErr' = [workerErr EXCEPT ![w] = 0]
    /\ AfterError(w)
    /\ UNCHANGED <<inputs, itemVars, jobs, jobsClosed, results, resultsClosed, errorClosed,
                   progressChan, progressClosed, sinkVars, mainPc, started, sent, workerRows,
                   outcome, closerPc, output, flushed>>

\* worker: results <- row, for the next row of the file
WorkerSendRow(w) ==
    /\ Running
    /\ workerPc[w] = "sendRows"
    /\ HasRoom(results)
    /\ results' = Append(results, Head(workerRows[w]))
    /\ workerRows' = [workerRows EXCEPT ![w] = Tail(workerRows[w])]
    /\ workerPc' = [workerPc EXCEPT ![w] = IF Len(workerRows[w]) = 1 THEN "recv" ELSE "sendRows"]
    /\ UNCHANGED <<inputs, itemVars, jobs, jobsClosed, resultsClosed, errorChan, errorClosed,
                   progressChan, progressClosed, sinkVars, mainPc, started, sent, workerErr,
                   wg, outcome, errSent, closerPc, output, flushed>>

WorkerExit_NoDone(w) ==
    /\ Running
    /\ workerPc[w] = "recv"
    /\ jobs = <<>>
    /\ jobsClosed
    /\ workerPc' = [workerPc EXCEPT ![w] = "done"]
    /\ UNCHANGED <<inputs, itemVars, chanVars, sinkVars, mainPc, started, sent, workerRows,
                   workerErr, wg, outcome, errSent, closerPc, output, flushed>>

\* worker: the range over jobs ends; the deferred wg.Done() runs
WorkerExit(w) ==
    /\ Running
    /\ workerPc[w] = "recv"
    /\ jobs = <<>>
    /\ jobsClosed
    /\ workerPc' = [workerPc EXCEPT ![w] = "done"]
    /\ wg' = wg - 1
    /\ UNCHANGED <<inputs, itemVars, chanVars, sinkVars, mainPc, started, sent, workerRows,
                   workerErr, outcome, errSent, closerPc, output, flushed>>

\* the closing goroutine closing results without waiting for the workers
CloseResults_NoWait ==
    /\ Running
    /\ closerPc = "wait"
    /\ resultsClosed' = TRUE
    /\ closerPc' = "closeErrors"
    /\ UNCHANGED <<inputs, itemVars, jobs, jobsClosed, results, errorChan, errorClosed,
                   progressChan, progressClosed, workerVars, sinkVars, mainPc, started, sent,
                   output, flushed>>

\* the closing goroutine: wg.Wait() returns; close(results)
CloseResults ==
    /\ Running
    /\ closerPc = "wait"
    /\ wg = 0
    /\ resultsClosed' = TRUE
    /\ closerPc' = "closeErrors"
    /\ UNCHANGED <<inputs, itemVars, jobs, jobsClosed, results, errorChan, errorClosed,
                   progressChan, progressClosed, workerVars, sinkVars, mainPc, started, sent,
                   output, flushed>>

\* the closing goroutine: close(errorChan)
CloseErrors ==
    /\ Running
    /\ closerPc = "closeErrors"
    /\ errorClosed' = TRUE
    /\ closerPc' = "done"
    /\ UNCHANGED <<inputs, itemVars, jobs, jobsClosed, results, resultsClosed, errorChan,
                   progressChan, progressClosed, workerVars, sinkVars, mainPc, started, sent,
                   output, flushed>>

\* monitorErrors: err := <-errorChan; log.Printf(...)
LogError ==
    /\ Running
    /\ monitorPc = "run"
    /\ errorChan # <<>>
    /\ logged' = Append(logged, Head(errorChan))
    /\ errorChan' = Tail(errorChan)
    /\ UNCHANGED <<inputs, itemVars, jobs, jobsClosed, results, resultsClosed, errorClosed,
                   progressChan, progressClosed, workerVars, monitorPc, progressPc, processed,
                   mainPc, started, sent, closerPc, output, flushed>>

\* monitorErrors: the range over errorChan ends
MonitorExit ==
    /\ Running
    /\ monitorPc = "run"
    /\ errorChan = <<>>
    /\ errorClosed
    /\ monitorPc' = "done"
    /\ UNCHANGED <<inputs, itemVars, chanVars, workerVars, progressPc, processed, logged,
                   mainPc, started, sent, closerPc, output, flushed>>

\* showProgress: one tick received; processed++, capped at totalFiles
ShowProgress ==
    /\ Running
    /\ progressPc = "run"
    /\ progressChan # <<>>
    /\ progressChan' = Tail(progressChan)
    /\ processed' = IF processed + 1 > totalFiles THEN totalFiles ELSE processed + 1
    /\ UNCHANGED <<inputs, itemVars, jobs, jobsClosed, results, resultsClosed, errorChan,
                   errorClosed, progressClosed, workerVars, monitorPc, progressPc, logged,
                   mainPc, started, sent, closerPc, output, flushed>>

\* showProgress: the range over progressChan ends
ProgressExit ==
    /\ Running
    /\ progressPc = "run"
    /\ progressChan = <<>>
    /\ progressClosed
    /\ progressPc' = "done"
    /\ UNCHANGED <<inputs, itemVars, chanVars, workerVars, monitorPc, processed, logged,
                   mainPc, started, sent, closerPc, output, flushed>>

Next ==
    \/ WriteHeader
    \/ StartWorker
    \/ StartSinks
    \/ SendJob
    \/ CloseJobs
    \/ StartCloser
    \/ WriteRow
    \/ Tick
    \/ CloseProgress
    \/ Return
    \/ \E w \in Workers : WorkerTake(w)
    \/ \E w \in Workers : WorkerSendErr(w)
    \/ \E w \in Workers : WorkerSendRow(w)
    \/ \E w \in Workers : WorkerExit(w)
    \/ CloseResults
    \/ CloseErrors
    \/ LogError
    \/ MonitorExit
    \/ ShowProgress
    \/ ProgressExit

Spec == Init /\ [][Next]_vars

MainStep ==
    \/ WriteHeader \/ StartWorker \/ StartSinks \/ SendJob \/ CloseJobs \/ StartCloser
    \/ WriteRow \/ Tick \/ CloseProgress \/ Return

WorkerStep(w) == WorkerTake(w) \/ WorkerSendErr(w) \/ WorkerSendRow(w) \/ WorkerExit(w)

\* the Go scheduler runs every goroutine that can take a step
Fairness ==
    /\ WF_vars(MainStep)
    /\ \A w \in Workers : WF_vars(WorkerStep(w))
    /\ WF_vars(CloseResults \/ CloseErrors)
    /\ WF_vars(LogError \/ MonitorExit)
    /\ WF_vars(ShowProgress \/ ProgressExit)

FairSpec == Spec /\ Fairness

\* the runs in which showProgress and monitorErrors may stall for ever: only
\* main, the workers and the closer are sure to run
StalledSinksSpec ==
    /\ Spec
    /\ WF_vars(MainStep)
    /\ \A w \in Workers : WF_vars(WorkerStep(w))
    /\ WF_vars(CloseResults \/ CloseErrors)

(***************************************************************************)
(* processJSONItem on its own: one record, under every profile and policy. *)
(***************************************************************************)
ItemInit ==
    /\ item \in ItemPool
    /\ profile \in ItemProfilePool
    /\ config \in ConfigPool
    /\ itemOrders \in Orders(item, profile)
    /\ itemResult = <<>>
    /\ fnCall = NoCall
    /\ fnRet = <<>>
    /\ jsonFiles = <<>>
    /\ workerCount = 0
    /\ mainPc = "header"
    /\ started = 0
    /\ sent = 0
    /\ jobs = <<>> /\ jobsClosed = FALSE
    /\ results = <<>> /\ resultsClosed = FALSE
    /\ errorChan = <<>> /\ errorClosed = FALSE
    /\ progressChan = <<>> /\ progressClosed = FALSE
    /\ workerPc = [w \in Workers |-> "idle"]
    /\ workerRows = [w \in Workers |-> <<>>]
    /\ workerErr = [w \in Workers |-> 0]
    /\ wg = 0
    /\ closerPc = "idle"
    /\ monitorPc = "idle"
    /\ progressPc = "idle"
    /\ processed = 0
    /\ output = <<>>
    /\ flushed = FALSE
    /\ logged = <<>>
    /\ outcome = [f \in {} |-> 0]
    /\ errSent = <<>>

\* row, err := processJSONItem(item, profile)
ProcessItem ==
    /\ itemResult = <<>>
    /\ itemResult' = <<ItemResults[item, profile, config][itemOrders]>>
    /\ UNCHANGED <<inputs, item, itemOrders, fnCall, fnRet, chanVars, workerVars, sinkVars, mainPc, started,
                   sent, closerPc, output, flushed>>

ItemNext == ProcessItem

SpecItem == ItemInit /\ [][ItemNext]_vars

(***************************************************************************)
(* The helpers on their own: getNestedValue, handleNullValue, matchColumn  *)
(* and extractHTMLValues, each called once on arguments drawn from a pool. *)
(***************************************************************************)
\* a column that has only the rules the matcher reads
Rule(regex, keywords, exact) ==
    [Column |-> <<"C">>, Key |-> <<>>, Regex |-> regex, Keywords |-> keywords,
     ExactMatch |-> exact, ExtractToEnd |-> FALSE, CleanHTML |-> FALSE, Tag |-> <<>>]

\* the dotted paths handed to the resolver
PathPool ==
    {<<"i", "d">>,
     <<"m", "i", "s", "s", "i", "n", "g">>,
     <<"a", "u", "t", "h", "o", "r">>,
     <<"a", "u", "t", "h", "o", "r", ".", "n", "a", "m", "e">>,
     <<"a", "u", "t", "h", "o", "r", ".", "n", "a", "m", "e", ".", "f", "i", "r", "s", "t">>,
     <<"i", "t", "e", "m", "s">>,
     <<"i", "t", "e", "m", "s", ".", "s", "k", "u">>,
     <<"i", "t", "e", "m", "s", ".", "[", "0", "]", ".", "s", "k", "u">>,
     <<"i", "t", "e", "m", "s", ".", "[", "1", "]", ".", "s", "k", "u">>,
     <<"i", "t", "e", "m", "s", ".", "[", "2", "]", ".", "s", "k", "u">>,
     <<"i", "t", "e", "m", "s", ".", "[", "-", "1", "]", ".", "s", "k", "u">>,
     <<"i", "t", "e", "m", "s", ".", "[", "1", "]", "x", ".", "s", "k", "u">>,
     <<"i", "t", "e", "m", "s", ".", "[", " ", "1", "]", ".", "s", "k", "u">>,
     <<"i", "t", "e", "m", "s", ".", "[", "+", "1", "]", ".", "s", "k", "u">>,
     <<"i", "t", "e", "m", "s", ".", "[", "]", ".", "s", "k", "u">>,
     <<"i", "t", "e", "m", "s", ".", "[", "1">>}

\* the fields handed to the null policy
FieldPool ==
    {<<>>,
     <<"<", "n", "i", "l", ">">>,
     <<"n", "u", "l", "l">>,
     <<"n", "i", "l">>,
     <<"a">>,
     <<" ">>,
     <<"<", "n", "i", "l", ">", " ">>,
     <<"\r", "\n">>,
     <<"<", "n", "i", "l", ">", "\r", "\n">>}

\* the harvested labels handed to the column matcher
LabelPool ==
    {<<"N", "a", "m", "e">>,
     <<"n", "a", "m", "e">>,
     <<"N", "i", "c", "k", "n", "a", "m", "e">>,
     <<"R", "o", "l", "e">>,
     <<"R", "o", "l", "e", "s">>,
     <<"N", "a">>,
     <<"m", "e">>,
     <<"G", "a", "m", "e">>}

\* the rules handed to the column matcher: regex, keywords, exact_match
RulePool ==
    {Rule(<<"N", "a", "m", "e">>, <<>>, FALSE),
     Rule(<<"N", "a", "m", "e">>, <<<<"r", "o", "l", "e">>>>, FALSE),
     Rule(<<"N", "a", "m", "e">>, <<<<"R", "o", "l", "e">>>>, TRUE),
     Rule(<<>>, <<<<"n", "a", "m", "e">>>>, FALSE),
     Rule(<<"N", "a", "|", "m", "e">>, <<>>, FALSE),
     Rule(<<"N", ".", "*">>, <<>>, FALSE),
     Rule(<<"*">>, <<<<"n", "i", "c", "k">>>>, FALSE)}

\* the bodies handed to the HTML extractor
BodyPool ==
    {<<"<p>", "<strong>", "N", "a", "m", "e", ":", "</strong>", " ", "A", "l", "i", "c", "e", "</p>", "<p>", "<strong>", "R", "o", "l", "e", ":", "</strong>", " ", "E", "n", "g", "</p>">>,
     <<"<p>", "I", "n", "t", "r", "o", " ", "<strong>", "N", "a", "m", "e", ":", "</strong>", " ", "A", "l", "i", "c", "e", "</p>">>,
     <<"<p>", "<strong>", "N", "a", "m", "e", "</strong>", "A", "l", "<strong>", "N", "a", "m", "e", "</strong>", "B", "o", "</p>">>,
     <<"<p>", "<strong>", "N", "a", "m", "e", "</strong>", "A", "l", "<strong>", "N", "i", "c", "k", "n", "a", "m", "e", "</strong>", "B", "o", "</p>">>,
     <<"<p>", "<strong>", "N", "a", "m", "e", ":", "</strong>", " ", "A", "<span>", "l", "</span>", "<br>", "x", " ", "</p>">>,
     <<"<p>", "h", "e", "l", "l", "o", "</p>">>,
     <<"<p>", "<strong>", "A", "</strong>", "x", "</p>", "<p>", "y", "<strong>", "B", "</strong>", "z", "</p>">>,
     <<"<p>", "<strong>", "N", "a", "m", "e", ":", "</strong>", " ", "A", "l", "</p>", "<p>", "<strong>", "N", "a", "m", "e", ":", "</strong>", " ", "B", "o", "</p>">>}

\* two columns that the same labels match
TwinColumns ==
    <<[Column |-> <<"F", "i", "r", "s", "t">>, Key |-> <<>>, Regex |-> <<>>,
         Keywords |-> <<<<"n", "a", "m", "e">>>>, ExactMatch |-> FALSE,
         ExtractToEnd |-> FALSE, CleanHTML |-> FALSE, Tag |-> <<>>],
      [Column |-> <<"S", "e", "c", "o", "n", "d">>, Key |-> <<>>, Regex |-> <<>>,
         Keywords |-> <<<<"n", "a", "m", "e">>>>, ExactMatch |-> FALSE,
         ExtractToEnd |-> FALSE, CleanHTML |-> FALSE, Tag |-> <<>>]>>

\* the column lists handed to the HTML extractor
ColumnsPool == {HTMLProfile.Columns, TwinColumns, TagProfile.Columns}

CallPool ==
    {[fn |-> "getNestedValue", data |-> d, keys |-> Split(p, Dot)] :
        d \in ItemPool, p \in PathPool}
    \cup {[fn |-> "handleNullValue", value |-> v] : v \in FieldPool}
    \cup {[fn |-> "applyPolicies", value |-> v] : v \in FieldPool}
    \cup {[fn |-> "matchColumn", key |-> k, column |-> c] : k \in LabelPool, c \in RulePool}
    \cup {[fn |-> "extractHTMLValues", content |-> b, columns |-> cs] :
            b \in BodyPool, cs \in ColumnsPool}

FnInit ==
    /\ fnCall \in CallPool
    /\ fnRet = <<>>
    /\ config \in (IF fnCall.fn \in {"handleNullValue", "applyPolicies"} THEN ConfigPool
                   ELSE {Policy("keep", "nil")})
    /\ profile = JSONProfile
    /\ item = NoItem
    /\ itemOrders = <<>>
    /\ itemResult = <<>>
    /\ jsonFiles = <<>>
    /\ workerCount = 0
    /\ mainPc = "header"
    /\ started = 0
    /\ sent = 0
    /\ jobs = <<>> /\ jobsClosed = FALSE
    /\ results = <<>> /\ resultsClosed = FALSE
    /\ errorChan = <<>> /\ errorClosed = FALSE
    /\ progressChan = <<>> /\ progressClosed = FALSE
    /\ workerPc = [w \in Workers |-> "idle"]
    /\ workerRows = [w \in Workers |-> <<>>]
    /\ workerErr = [w \in Workers |-> 0]
    /\ wg = 0
    /\ closerPc = "idle"
    /\ monitorPc = "idle"
    /\ progressPc = "idle"
    /\ processed = 0
    /\ output = <<>>
    /\ flushed = FALSE
    /\ logged = <<>>
    /\ outcome = [f \in {} |-> 0]
    /\ errSent = <<>>

fnFrame == <<inputs, item, itemOrders, itemResult, fnCall, chanVars, workerVars, sinkVars,
             mainPc, started, sent, closerPc, output, flushed>>

\* value, err := getNestedValue(data, keys)
CallGetNestedValue ==
    /\ fnCall.fn = "getNestedValue"
    /\ fnRet = <<>>
    /\ fnRet' = <<getNestedValue(fnCall.data, fnCall.keys)>>
    /\ UNCHANGED fnFrame

\* row[i] = handleNullValue(row[i])
CallHandleNullValue ==
    /\ fnCall.fn = "handleNullValue"
    /\ fnRet = <<>>
    /\ fnRet' = <<handleNullValue(config, fnCall.value)>>
    /\ UNCHANGED fnFrame

\* row[i] = handleNewlines(value); row[i] = handleNullValue(row[i])
CallApplyPolicies ==
    /\ fnCall.fn = "applyPolicies"
    /\ fnRet = <<>>
    /\ fnRet' = <<applyPolicies(config, fnCall.value)>>
    /\ UNCHANGED fnFrame

\* matchColumn(key, column)
CallMatchColumn ==
    /\ fnCall.fn = "matchColumn"
    /\ fnRet = <<>>
    /\ fnRet' = <<matchColumn(fnCall.key, fnCall.column)>>
    /\ UNCHANGED fnFrame

\* results, err := extractHTMLValues(content, columns), under one order of
\* each range over keyValuePairs; the harvested map is kept beside the results
CallExtractHTMLValues ==
    /\ fnCall.fn = "extractHTMLValues"
    /\ fnRet = <<>>
    /\ \E orders \in [1..Len(fnCall.columns) -> Perms(DOMAIN keyValuePairs(fnCall.content))] :
          fnRet' = <<[keyValuePairs |-> keyValuePairs(fnCall.content),
                      results |-> extractHTMLValues(fnCall.content, fnCall.columns, orders),
                      orders |-> orders]>>
    /\ UNCHANGED fnFrame

FnNext ==
    \/ CallGetNestedValue
    \/ CallHandleNullValue
    \/ CallApplyPolicies
    \/ CallMatchColumn
    \/ CallExtractHTMLValues

SpecFn == FnInit /\ [][FnNext]_vars

(***************************************************************************)
(* Properties of the run.                                                  *)
(***************************************************************************)
IsRow(e) == e.kind = "row"

\* the data rows of the output written so far, in the order written
DataRows == SelectSeq(output, IsRow)

OfFile(seq, f) == SelectSeq(seq, LAMBDA e : e.file = f)

Count(seq, v) == Cardinality({i \in 1..Len(seq) : seq[i] = v})

\* C1: the rows written for one file are in the order of the file's records:
\* a row of a later record is written after the row of every earlier record
\* of the file that yields a row.
C1_RecordOrderKept ==
    /\ \A i, j \in 1..Len(DataRows) :
          (i < j /\ DataRows[i].file = DataRows[j].file) => DataRows[i].rec < DataRows[j].rec
    /\ \A j \in 1..Len(DataRows) :
          LET f == DataRows[j].file
          IN  \A k \in 1..Len(outcome[f].rows) :
                 outcome[f].rows[k].rec < DataRows[j].rec
                     => \E i \in 1..(j - 1) :
                           /\ DataRows[i].file = f
                           /\ DataRows[i].rec = outcome[f].rows[k].rec

\* a run with two workers that has written three rows of one file
C1_Witness ==
    /\ workerCount = 2
    /\ \E f \in Paths : Len(OfFile(DataRows, f)) = 3

Contiguous ==
    \A i, j, k \in 1..Len(DataRows) :
        (i < k /\ k < j /\ DataRows[i].file = DataRows[j].file)
            => DataRows[k].file = DataRows[i].file

\* C2 as stated: for any worker count the rows of one file are contiguous in
\* the output.
C2_ContiguousAnyWorkers == Contiguous

\* C2: with at most one worker the rows of one file are contiguous in the
\* output, no row of another file between two of them.
C2_ContiguousOneWorker == workerCount <= 1 => Contiguous

\* one worker, two files, rows of both written, two or more of one of them
C2_Witness ==
    /\ workerCount = 1
    /\ \E f, g \in Paths :
          /\ f # g
          /\ Len(OfFile(DataRows, f)) >= 2
          /\ Len(OfFile(DataRows, g)) >= 1

\* C3: every run ends: main returns, whatever the files and the worker count,
\* so no goroutine main waits for stays blocked on a channel for ever.
C3_RunCompletes == <>(mainPc = "done")

\* a finished run that wrote more rows than the results channel holds, so
\* that a worker had to wait for main to drain
C3_Witness ==
    /\ mainPc = "done"
    /\ workerCount = 1
    /\ Len(DataRows) > totalFiles
    /\ \A w \in Workers : workerPc[w] \in {"idle", "done"}

FileLevelFailure(f) == FileSystem[f].kind \in {"unreadable", "malformed"}

Pending(f) == \E w \in Workers : workerErr[w] = f

\* C5: a file that cannot be read, decoded or unmarshalled gives exactly one
\* error and no row, and the worker goes on: when main returns every file of
\* the folder was drawn, and every file without an error has all its rows
\* written.
C5_FileFailureIsolated ==
    /\ \A f \in Paths :
          FileLevelFailure(f) =>
              /\ Count(errSent, f) <= 1
              /\ OfFile(DataRows, f) = <<>>
              /\ OfFile(results, f) = <<>>
              /\ (f \in DOMAIN outcome /\ ~Pending(f)) => Count(errSent, f) = 1
    /\ (mainPc = "done" /\ workerCount >= 1) =>
          \A n \in 1..Len(jsonFiles) :
              LET f == jsonFiles[n]
              IN  /\ f \in DOMAIN outcome
                  /\ outcome[f].err = "none" =>
                        Len(OfFile(DataRows, f)) = Len(outcome[f].rows)

\* a finished run over a failing file followed by a file whose rows were written
C5_Witness ==
    /\ mainPc = "done"
    /\ Len(jsonFiles) = 2
    /\ FileLevelFailure(jsonFiles[1])
    /\ Count(errSent, jsonFiles[1]) = 1
    /\ OfFile(DataRows, jsonFiles[2]) # <<>>

\* C6 as stated: every error pushed to the error channel is logged before
\* main returns.
C6_ErrorsLoggedAtReturn == mainPc = "done" => logged = errSent

\* main has returned and an error that a worker sent was never logged
C6_Witness ==
    /\ mainPc = "done"
    /\ errSent # <<>>
    /\ logged = <<>>
    /\ monitorPc = "run"

\* the records of a file whose parse_body field is missing, for a parse_body
\* of one segment
BodyMissing(f) ==
    {k \in 1..Len(FileSystem[f].value) :
        /\ profile.ParseBody # <<>>
        /\ ~Contains(profile.ParseBody, Dot)
        /\ profile.ParseBody \notin DOMAIN FileSystem[f].value[k].m}

Drawn(f) == f \in DOMAIN outcome /\ FileSystem[f].kind = "ok"

\* C7 as stated: a record whose parse_body cannot be resolved still gives a
\* row, and is no error for its file.
C7_RowWithoutBody ==
    \A f \in Paths :
        Drawn(f) =>
            \A k \in BodyMissing(f) :
                /\ outcome[f].err = "none"
                /\ \E n \in 1..Len(outcome[f].rows) : outcome[f].rows[n].rec = k

\* C7: a record whose parse_body field is missing gives no row:
\* processJSONItem returns an error, the file is given up with that one
\* error, and no row of the file is sent or written.
C7_MissingBodyFailsFile ==
    \A f \in Paths :
        (Drawn(f) /\ BodyMissing(f) # {}) =>
            /\ outcome[f].err = "item"
            /\ outcome[f].rows = <<>>
            /\ OfFile(results, f) = <<>>
            /\ OfFile(DataRows, f) = <<>>
            /\ Count(errSent, f) <= 1
            /\ ~Pending(f) => Count(errSent, f) = 1

\* a file with a record without body was drawn and its error sent
C7_Witness ==
    \E f \in Paths :
        /\ Drawn(f)
        /\ BodyMissing(f) # {}
        /\ Count(errSent, f) = 1

\* the rows of one fixed order of the ranges, for the files a run has drawn
ReferenceRows(f) == (CHOOSE res \in FileResults[f, profile, config] : TRUE).rows

\* C9 as stated: the rows of a run are those of any other run over the same
\* input: each file gives the same rows whatever the map iteration order.
C9_SameRowsEveryRun ==
    \A f \in DOMAIN outcome :
        /\ outcome[f].rows = ReferenceRows(f)
        /\ mainPc = "done" =>
              \A e \in Range(ReferenceRows(f)) :
                  Count(DataRows, [kind |-> "row", file |-> f, rec |-> e.rec, fields |-> e.row])
                      = 1

\* a finished run that wrote, for a file with two labels matching one column,
\* rows other than those of the reference order
C9_Witness ==
    /\ mainPc = "done"
    /\ \E f \in DOMAIN outcome :
          /\ outcome[f].err = "none"
          /\ Len(outcome[f].rows) = Len(ReferenceRows(f))
          /\ \E n \in 1..Len(outcome[f].rows) :
                /\ outcome[f].rows[n].row # ReferenceRows(f)[n].row
                /\ Count(DataRows, [kind |-> "row", file |-> f, rec |-> outcome[f].rows[n].rec,
                                    fields |-> outcome[f].rows[n].row]) = 1

\* C10: the header is the first thing written, before any worker is
\* started, with one field per column, in order, equal to the column name.
C10_HeaderFirst ==
    /\ output # <<>> =>
          /\ output[1].kind = "header"
          /\ Len(output[1].fields) = Len(profile.Columns)
          /\ \A i \in 1..Len(profile.Columns) : output[1].fields[i] = profile.Columns[i].Column
    /\ \A i \in 2..Len(output) : output[i].kind = "row"
    /\ (started > 0 \/ \E w \in Workers : workerPc[w] # "idle") => output # <<>>

\* workers started and a row written after the header
C10_Witness ==
    /\ started = workerCount
    /\ started > 0
    /\ Len(output) >= 2
    /\ output[2].kind = "row"

\* the null sentinel of the policy of the run
RunSentinel == IF config.NullValueHandling = "nil" THEN <<"n", "i", "l">> ELSE <<>>

\* C11: every data row written, sent or waiting to be sent has as many
\* fields as the profile has columns, which is the arity of the header.
C11_RowArity ==
    /\ \A i \in 1..Len(DataRows) :
          /\ Len(DataRows[i].fields) = Len(profile.Columns)
          /\ Len(DataRows[i].fields) = Len(output[1].fields)
    /\ \A i \in 1..Len(results) : Len(results[i].row) = Len(profile.Columns)
    /\ \A w \in Workers : \A i \in 1..Len(workerRows[w]) :
          Len(workerRows[w][i].row) = Len(profile.Columns)

\* a written row of three fields, one of them blank
C11_Witness ==
    \E i \in 1..Len(DataRows) :
        /\ Len(DataRows[i].fields) = 3
        /\ \E k \in 1..3 : DataRows[i].fields[k] = RunSentinel

WorkersFinished ==
    /\ started = workerCount
    /\ wg = 0
    /\ \A w \in 1..started : workerPc[w] = "done"

AllRowsWritten ==
    /\ results = <<>>
    /\ \A w \in Workers : workerRows[w] = <<>>
    /\ \A f \in DOMAIN outcome : Len(OfFile(DataRows, f)) = Len(outcome[f].rows)

\* C12: results is closed only after every worker has finished; the flush
\* happens only after that and after every row sent on results was written;
\* and nothing is written after the flush.
C12_FlushAfterWorkers ==
    /\ [](resultsClosed => WorkersFinished)
    /\ [](flushed => (resultsClosed /\ WorkersFinished /\ AllRowsWritten))
    /\ [][flushed => output' = output]_vars

\* the flush of a run of two workers that wrote three rows or more
C12_Witness ==
    /\ flushed
    /\ workerCount = 2
    /\ Len(DataRows) >= 3

\* C16: the writer never waits for the progress queue: the step after a
\* written row sends the tick when the queue has room and drops it when the
\* queue is full, and the writer is back at its loop after every row, even
\* in runs where showProgress never receives.
C16_WriterNeverWaitsForProgress ==
    /\ [][(mainPc = "tick" /\ mainPc' # "tick") =>
              /\ mainPc' = "drain"
              /\ output' = output
              /\ progressChan' = IF Len(progressChan) < totalFiles
                                 THEN Append(progressChan, 1) ELSE progressChan]_vars
    /\ (mainPc = "tick") ~> (mainPc = "drain")
    /\ <>(mainPc = "done")

\* a finished run in which showProgress received nothing, the progress queue
\* is full and more rows were written than the queue holds
C16_Witness ==
    /\ mainPc = "done"
    /\ totalFiles > 0
    /\ processed = 0
    /\ Len(progressChan) = totalFiles
    /\ Len(DataRows) > totalFiles

\* the row of the output that a row built from a file gives
Written(f, built) == [kind |-> "row", file |-> f, rec |-> built.rec, fields |-> built.row]

\* C20 as stated: whatever the worker count and the files, no file is drawn
\* twice, no built row is written twice, and when main returns every file
\* was drawn and every row built from a file without an error is in the
\* output exactly once.
C20_EveryRowWrittenOnce ==
    /\ \A f \in Paths :
          /\ Count(errSent, f) <= 1
          /\ f \in DOMAIN outcome => \A i \in 1..Len(jobs) : jobs[i] # f
    /\ \A i, j \in 1..Len(DataRows) : DataRows[i] = DataRows[j] => i = j
    /\ mainPc = "done" =>
          \A n \in 1..Len(jsonFiles) :
              /\ jsonFiles[n] \in DOMAIN outcome
              /\ outcome[jsonFiles[n]].err = "none" =>
                    /\ Len(OfFile(DataRows, jsonFiles[n])) = Len(outcome[jsonFiles[n]].rows)
                    /\ \A k \in 1..Len(outcome[jsonFiles[n]].rows) :
                          Count(DataRows, Written(jsonFiles[n], outcome[jsonFiles[n]].rows[k])) = 1

\* a finished run with a worker count of 0 over a folder with a file that
\* holds rows: no file was drawn and no row written
C20_Witness ==
    /\ mainPc = "done"
    /\ flushed
    /\ workerCount = 0
    /\ \E n \in 1..Len(jsonFiles) :
          \E res \in FileResults[jsonFiles[n], profile, config] : res.rows # <<>>
    /\ DOMAIN outcome = {}
    /\ DataRows = <<>>

\* the records of a file for which processJSONItem returns an error
FailingRecords(f) ==
    {k \in 1..Len(FileSystem[f].value) :
        \E o \in DOMAIN ItemResults[FileSystem[f].value[k], profile, config] :
            ItemResults[FileSystem[f].value[k], profile, config][o].err}

\* the records of a file that give a row when built on their own
RowRecords(f) ==
    {k \in 1..Len(FileSystem[f].value) :
        \E o \in DOMAIN ItemResults[FileSystem[f].value[k], profile, config] :
            ItemResults[FileSystem[f].value[k], profile, config][o].row # <<>>}

\* C21: the rows of a file are pushed all or none: when processJSONItem
\* returns an error for a record of the file, processJSONFile returns that
\* error and no row, the worker sends exactly one error for the file, and no
\* row of the file is held by a worker, queued or written, the rows of the
\* records before the failing one included; a readable file without such a
\* record is no error.
C21_FileAllOrNothing ==
    \A f \in Paths :
        Drawn(f) =>
            IF FailingRecords(f) # {}
            THEN /\ outcome[f].err = "item"
                 /\ outcome[f].rows = <<>>
                 /\ \A w \in Workers : OfFile(workerRows[w], f) = <<>>
                 /\ OfFile(results, f) = <<>>
                 /\ OfFile(DataRows, f) = <<>>
                 /\ Count(errSent, f) <= 1
                 /\ ~Pending(f) => Count(errSent, f) = 1
            ELSE /\ outcome[f].err = "none"
                 /\ Count(errSent, f) = 0

\* a finished run over a file whose failing record comes after a record that
\* gives a row: one error for the file and none of its rows, next to a file
\* whose rows were written
C21_Witness ==
    /\ mainPc = "done"
    /\ \E f \in Paths :
          /\ Drawn(f)
          /\ \E k \in FailingRecords(f) : \E j \in RowRecords(f) : j < k
          /\ Count(errSent, f) = 1
          /\ OfFile(DataRows, f) = <<>>
    /\ DataRows # <<>>

(***************************************************************************)
(* Properties of processJSONItem.                                          *)
(***************************************************************************)
Built == itemResult # <<>>

\* the null sentinel of the policy
Sentinel ==
    CASE config.NullValueHandling = "null" -> <<"n", "u", "l", "l">>
      [] config.NullValueHandling = "nil" -> <<"n", "i", "l">>
      [] OTHER -> <<>>

\* the fields of the record after the newline and the null policy
FinalFields ==
    LET cols == columnValues(config, item, profile, itemOrders)
    IN  AsSeq([i \in 1..Len(profile.Columns) |-> cols[i].value])

NonBlank(field) == field # <<>> /\ field # Sentinel

\* C4: a record gives a row if and only if one of its final fields is
\* neither the empty string nor the null sentinel, and the row is then made
\* of those fields.
C4_RowIffNonBlankField ==
    (Built /\ ~itemResult[1].err) =>
        LET kept == \E i \in 1..Len(FinalFields) : NonBlank(FinalFields[i])
        IN  /\ itemResult[1].row # <<>> <=> kept
            /\ kept => itemResult[1].row = FinalFields

\* a record dropped with every field the sentinel "nil" or "null", and one
\* of them not the first
C4_Witness ==
    /\ Built
    /\ ~itemResult[1].err
    /\ itemResult[1].row = <<>>
    /\ Sentinel # <<>>
    /\ \A i \in 1..Len(FinalFields) : FinalFields[i] = Sentinel

\* the columns that processJSONItem reads through their key
JsonSourced(column) ==
    /\ ~(profile.ContentType = HTML /\ (column.Regex # <<>> \/ Len(column.Keywords) > 0))
    /\ ~(column.Regex # <<>> /\ profile.ParseBody # <<>>)
    /\ column.Key # <<>>

PathOf(column) == getNestedValue(item, Split(column.Key, Dot))

AfterPolicies(column, value) ==
    handleNullValue(config, handleNewlines(config,
        IF column.CleanHTML THEN cleanHTMLContent(value) ELSE value))

\* C8: a column whose path does not resolve takes the empty string, put
\* through the null policy; the record is no error for it, and its other
\* columns read through a key hold what their path resolves to.
C8_PathFailureIsBlank ==
    Built =>
        /\ parseBody(item, profile).err = "none" => ~itemResult[1].err
        /\ itemResult[1].row # <<>> =>
              /\ Len(itemResult[1].row) = Len(profile.Columns)
              /\ \A i \in 1..Len(profile.Columns) :
                    JsonSourced(profile.Columns[i]) =>
                        itemResult[1].row[i] =
                            IF PathOf(profile.Columns[i]).err # "none" THEN Sentinel
                            ELSE AfterPolicies(profile.Columns[i], PathOf(profile.Columns[i]).s)

\* a row with a column whose path failed on a malformed index and another
\* column that is not blank
C8_Witness ==
    /\ Built
    /\ \E i \in 1..Len(profile.Columns) : PathOf(profile.Columns[i]).err = "IndexParse"
    /\ ~itemResult[1].err
    /\ itemResult[1].row # <<>>
    /\ \E i, j \in 1..Len(profile.Columns) :
          /\ JsonSourced(profile.Columns[i])
          /\ PathOf(profile.Columns[i]).err # "none"
          /\ itemResult[1].row[i] = Sentinel
          /\ NonBlank(itemResult[1].row[j])

\* the columns with a rule on the html of the body: a regex, keywords or a tag
HtmlRuled(column) ==
    column.Regex # <<>> \/ Len(column.Keywords) > 0 \/ column.Tag # <<>>

\* the map of the HTML extractor for the record
ExtractorMap == htmlValuesOf(profile, parseBody(item, profile).s, itemOrders)

\* C15: under content_type html every column with a regex, keywords or a
\* tag holds the value of the extractor's map under its name (blank when
\* the map has none), put through clean_html and the policies; a column
\* that has only a tag holds the joined text of the elements with that tag.
C15_HtmlColumnsReadMap ==
    (Built /\ ~itemResult[1].err /\ itemResult[1].row # <<>> /\ profile.ContentType = HTML) =>
        \A i \in 1..Len(profile.Columns) :
            HtmlRuled(profile.Columns[i]) =>
                itemResult[1].row[i] =
                    AfterPolicies(profile.Columns[i],
                                  MapGet(ExtractorMap, profile.Columns[i].Column))

\* a row whose column with only a tag is blank although the extractor's map
\* holds the text of the elements with that tag under the column's name
C15_Witness ==
    /\ Built
    /\ ~itemResult[1].err
    /\ itemResult[1].row # <<>>
    /\ profile.ContentType = HTML
    /\ \E i \in 1..Len(profile.Columns) :
          /\ profile.Columns[i].Tag # <<>>
          /\ profile.Columns[i].Regex = <<>>
          /\ Len(profile.Columns[i].Keywords) = 0
          /\ MapGet(ExtractorMap, profile.Columns[i].Column) =
                 extractTagContent(parseBody(item, profile).s, profile.Columns[i].Tag)
          /\ MapGet(ExtractorMap, profile.Columns[i].Column) # <<>>
          /\ itemResult[1].row[i] = Sentinel

(***************************************************************************)
(* Properties of the helpers.                                              *)
(***************************************************************************)
Returned(name) == fnCall.fn = name /\ fnRet # <<>>

Least(S) == CHOOSE i \in S : \A j \in S : i <= j

\* the columns without a tag that a label matches and that hold its value
Takers(label) ==
    {i \in 1..Len(fnCall.columns) :
        /\ fnCall.columns[i].Tag = <<>>
        /\ matchColumn(label, fnCall.columns[i])
        /\ fnCall.columns[i].Column \in DOMAIN fnRet[1].results
        /\ fnRet[1].results[fnCall.columns[i].Column] = fnRet[1].keyValuePairs[label]}

Matching(label) ==
    {i \in 1..Len(fnCall.columns) :
        fnCall.columns[i].Tag = <<>> /\ matchColumn(label, fnCall.columns[i])}

\* C13 as stated: a harvested label gives its value to one column at most,
\* the first column in profile order that matches it.
C13_FirstColumnClaims ==
    Returned("extractHTMLValues") =>
        \A label \in DOMAIN fnRet[1].keyValuePairs :
            /\ Cardinality(Takers(label)) <= 1
            /\ Takers(label) # {} => Takers(label) = {Least(Matching(label))}

\* one label, two columns that match it, and both hold its value
C13_Witness ==
    /\ Returned("extractHTMLValues")
    /\ fnCall.columns = TwinColumns
    /\ \E label \in DOMAIN fnRet[1].keyValuePairs :
          /\ Matching(label) = {1, 2}
          /\ Takers(label) = {1, 2}
          /\ \A other \in DOMAIN fnRet[1].keyValuePairs : other # label => Matching(other) = {}

\* the alternatives of a regex, and whether each of them compiles
Alternatives(regex) == Split(regex, <<"|">>)

Compiles(regex) ==
    \A k \in 1..Len(Alternatives(regex)) :
        \A j \in 1..Len(Atoms(Alternatives(regex)[k])) : ~Atoms(Alternatives(regex)[k])[j].bad

\* the whole label is a match of one alternative of the regex
FullMatch(regex, label) ==
    /\ Compiles(regex)
    /\ \E k \in 1..Len(Alternatives(regex)) :
          (Len(label) + 1) \in Ends(Atoms(Alternatives(regex)[k]), label, 1)

\* what a search for "^" + regex + "$" finds: with one alternative a full
\* match; with more, a match of the first at the start of the label, of the
\* last at its end, or of one in between anywhere
AnchoredSearch(regex, label) ==
    LET alts == Alternatives(regex)
        n == Len(alts)
    IN  /\ Compiles(regex)
        /\ IF n = 1 THEN (Len(label) + 1) \in Ends(Atoms(alts[1]), label, 1)
           ELSE \/ Ends(Atoms(alts[1]), label, 1) # {}
                \/ \E k \in 2..(n - 1) : \E i \in 1..(Len(label) + 1) :
                       Ends(Atoms(alts[k]), label, i) # {}
                \/ \E i \in 1..(Len(label) + 1) :
                       (Len(label) + 1) \in Ends(Atoms(alts[n]), label, i)

KeywordInLabel(column, label) ==
    \E i \in 1..Len(column.Keywords) : Contains(ToLower(label), ToLower(column.Keywords[i]))

LabelIsRule(column, label) ==
    label = column.Regex \/ \E i \in 1..Len(column.Keywords) : column.Keywords[i] = label

IndexForm(segment) ==
    LET inner == SubSeq(segment, 2, Len(segment) - 1)
        digits == IF inner # <<>> /\ Head(inner) \in {"+", "-"} THEN Tail(inner) ELSE inner
    IN  /\ Len(segment) >= 3
        /\ segment[1] = "["
        /\ segment[Len(segment)] = "]"
        /\ digits # <<>>
        /\ \A i \in 1..Len(digits) : IsDigit(digits[i])

IndexOf(segment) ==
    LET inner == SubSeq(segment, 2, Len(segment) - 1)
    IN  IF Head(inner) = "-" THEN 0 - Atoi(Tail(inner))
        ELSE IF Head(inner) = "+" THEN Atoi(Tail(inner))
        ELSE Atoi(inner)

\* the walk of a path as it is described: segment by segment, a mapping by
\* key, an array by a segment of the form [n], a scalar ending the walk
RECURSIVE DescribedWalk(_, _)
DescribedWalk(value, segments) ==
    IF segments = <<>> THEN Resolved(Sprint(value))
    ELSE IF value.t = "map"
    THEN IF Head(segments) \in DOMAIN value.m
         THEN DescribedWalk(value.m[Head(segments)], Tail(segments))
         ELSE Failed("KeyNotFound")
    ELSE IF value.t = "arr"
    THEN IF ~IndexForm(Head(segments)) THEN Failed("IndexParse")
         ELSE IF IndexOf(Head(segments)) \in 0..(Len(value.a) - 1)
         THEN DescribedWalk(value.a[IndexOf(Head(segments)) + 1], Tail(segments))
         ELSE Failed("IndexRange")
    ELSE Resolved(Sprint(value))

\* C17 as stated: the resolver fails with key-not-found on a mapping without
\* the key, with index-parse on an array when the segment is not of the form
\* [n], with index-range when n is outside the array; a scalar met while
\* segments remain ends the walk with its string form, and the value reached
\* is returned in its string form, null as "<nil>".
C17_ResolverAsDescribed ==
    Returned("getNestedValue") => fnRet[1] = DescribedWalk(fnCall.data, fnCall.keys)

\* a path with a segment that is not of the form [n], applied to an array,
\* that the resolver resolves without an error
C17_Witness ==
    /\ Returned("getNestedValue")
    /\ fnRet[1].err = "none"
    /\ DescribedWalk(fnCall.data, fnCall.keys).err = "IndexParse"

\* the fields that the null policy replaces
NullLike(value) == value = <<>> \/ value = <<"<", "n", "i", "l", ">">>

\* C18: the null policy gives the sentinel of the configuration for a field
\* that is "" or "<nil>" and every other field unchanged; applied to its own
\* result it changes nothing; and in the row builder it acts on the field
\* that the newline policy returned.
C18_NullPolicy ==
    /\ Returned("handleNullValue") =>
          /\ fnRet[1] = IF NullLike(fnCall.value) THEN Sentinel ELSE fnCall.value
          /\ handleNullValue(config, fnRet[1]) = fnRet[1]
    /\ Returned("applyPolicies") =>
          fnRet[1] = IF NullLike(handleNewlines(config, fnCall.value)) THEN Sentinel
                     ELSE handleNewlines(config, fnCall.value)

\* the literal "<nil>" replaced by a sentinel that is not blank, and a field
\* that only the newline policy made "<nil>" replaced as well
C18_Witness ==
    /\ Sentinel # <<>>
    /\ \/ /\ Returned("handleNullValue")
          /\ fnCall.value = <<"<", "n", "i", "l", ">">>
          /\ fnRet[1] = Sentinel
       \/ /\ Returned("applyPolicies")
          /\ ~NullLike(fnCall.value)
          /\ NullLike(handleNewlines(config, fnCall.value))
          /\ fnRet[1] = Sentinel

\* the text of the children from..to of a paragraph, concatenated
RECURSIVE TextBetween(_, _, _)
TextBetween(kids, from, to) ==
    IF from > to THEN <<>> ELSE kids[from].text \o TextBetween(kids, from + 1, to)

\* the position after the children that follow the i-th up to the next <strong>
NextStrong(kids, i) ==
    IF \E j \in (i + 1)..Len(kids) : kids[j].name = "strong"
    THEN Least({j \in (i + 1)..Len(kids) : kids[j].name = "strong"})
    ELSE Len(kids) + 1

\* the pairs of one paragraph from its i-th child on: each <strong> with the
\* trimmed text of the children after it up to the next <strong> or the end
RECURSIVE PairsOfParagraph(_, _, _)
PairsOfParagraph(kids, i, kv) ==
    IF i > Len(kids) THEN kv
    ELSE IF kids[i].name = "strong" /\ TrimSuffix(TrimSpace(kids[i].text), Colon) # <<>>
    THEN PairsOfParagraph(kids, i + 1,
             MapPut(kv, TrimSuffix(TrimSpace(kids[i].text), Colon),
                    TrimSpace(TextBetween(kids, i + 1, NextStrong(kids, i) - 1))))
    ELSE PairsOfParagraph(kids, i + 1, kv)

\* the pairs of the paragraphs in document order, a later pair replacing an
\* earlier one of the same label
RECURSIVE DescribedPairs(_, _)
DescribedPairs(ps, kv) ==
    IF ps = <<>> THEN kv
    ELSE DescribedPairs(Tail(ps), PairsOfParagraph(Children(Head(ps)), 1, kv))

\* C19 as stated: the value harvested for a <strong> label is the trimmed
\* text of the children that follow it up to the next <strong> or the end of
\* the paragraph, the text before the first <strong> belongs to no value,
\* and of a repeated label the last occurrence is kept.
C19_ValueIsTextAfterLabel ==
    Returned("extractHTMLValues") =>
        fnRet[1].keyValuePairs = DescribedPairs(Paragraphs(fnCall.content), EmptyMap)

\* a harvest with the described labels in which a value is longer than the
\* text that follows its label
C19_Witness ==
    /\ Returned("extractHTMLValues")
    /\ DOMAIN fnRet[1].keyValuePairs = DOMAIN DescribedPairs(Paragraphs(fnCall.content), EmptyMap)
    /\ \E label \in DOMAIN fnRet[1].keyValuePairs :
          Len(fnRet[1].keyValuePairs[label]) >
              Len(DescribedPairs(Paragraphs(fnCall.content), EmptyMap)[label])

====
